---- MODULE Spec2Model ----
(***************************************************************************)
(* Model of the dkregistry client: the authentication negotiation of       *)
(* src/src/v2/auth.rs (challenge parsing, token endpoint synthesis, the    *)
(* authenticate state machine) and the requests built from a Client.       *)
(*                                                                         *)
(* Strings are sequences of one-character strings, so that tokenising,     *)
(* lower-casing and concatenation are computed and not assumed.            *)
(***************************************************************************)
EXTENDS Integers, Sequences, FiniteSets, TLC

(* ------------------------------------------------------------------ *)
(* Bounds of the model                                                *)
(* ------------------------------------------------------------------ *)

\* longest list of key="value" pairs a modelled challenge carries
MaxPairs == 2
\* longest list of scopes a caller passes to authenticate
MaxScopes == 2

(* ------------------------------------------------------------------ *)
(* Characters and strings                                             *)
(* ------------------------------------------------------------------ *)

UpperLetters ==
    << "A","B","C","D","E","F","G","H","I","J","K","L","M",
       "N","O","P","Q","R","S","T","U","V","W","X","Y","Z" >>

LowerLetters ==
    << "a","b","c","d","e","f","g","h","i","j","k","l","m",
       "n","o","p","q","r","s","t","u","v","w","x","y","z" >>

LetterIdx == 1..Len(UpperLetters)

UpperSet == { UpperLetters[i] : i \in LetterIdx }
LowerSet == { LowerLetters[i] : i \in LetterIdx }
LetterSet == UpperSet \cup LowerSet

LowerMap == [c \in UpperSet |-> LowerLetters[CHOOSE i \in LetterIdx : UpperLetters[i] = c]]
UpperMap == [c \in LowerSet |-> UpperLetters[CHOOSE i \in LetterIdx : LowerLetters[i] = c]]

\* [A-Za-z]
IsLetter(c) == c \in LetterSet

IsDigit(c) == c \in {"0","1","2","3","4","5","6","7","8","9"}

\* \s of the regex crate, restricted to what a header value can hold
IsSpace(c) == c = " " \/ c = "\t"

\* a byte that is not valid UTF-8 (obs-text in a header value)
BadByte == "<FF>"

\* char::to_lowercase on the characters [A-Za-z]+ can match
ToLower(c) == IF c \in UpperSet THEN LowerMap[c] ELSE c

ToUpper(c) == IF c \in LowerSet THEN UpperMap[c] ELSE c

LowerStr(s) == [i \in 1..Len(s) |-> ToLower(s[i])]
UpperStr(s) == [i \in 1..Len(s) |-> ToUpper(s[i])]

\* Option<T>
NoneV == [some |-> FALSE]
Some(v) == [some |-> TRUE, v |-> v]

\* Result<T>
Ok(v) == [ok |-> TRUE, v |-> v]
Err(e) == [ok |-> FALSE, err |-> e]

RECURSIVE Concat(_)
\* concatenation of a sequence of strings
Concat(ss) == IF ss = <<>> THEN <<>> ELSE Head(ss) \o Concat(Tail(ss))

(* ------------------------------------------------------------------ *)
(* The challenge tokenizer: REGEX and captures_iter                    *)
(* ------------------------------------------------------------------ *)

RECURSIVE SkipWs(_, _)
\* \s* (greedy) from position i: the first position that holds no whitespace
SkipWs(h, i) ==
    IF i <= Len(h) /\ IsSpace(h[i]) THEN SkipWs(h, i + 1) ELSE i

RECURSIVE LetterRunEnd(_, _)
\* [A-Za-z]+ (greedy) from position i: the first position that holds no letter
LetterRunEnd(h, i) ==
    IF i <= Len(h) /\ IsLetter(h[i]) THEN LetterRunEnd(h, i + 1) ELSE i

RECURSIVE QuoteAt(_, _)
\* [^"]+ from position i: the position of the next double quote, Len+1 if none
QuoteAt(h, i) ==
    IF i <= Len(h) /\ h[i] # "\"" THEN QuoteAt(h, i + 1) ELSE i

NoMatch == [ok |-> FALSE]

\* "(?P<value>[^"]+)" \s*   with the opening quote at m and the closing one at n
MatchValue(h, i, j, m, n) ==
    IF m <= Len(h) /\ h[m] = "\"" /\ n <= Len(h) /\ n > m + 1
    THEN [ok |-> TRUE,
          key |-> SubSeq(h, i, j - 1),
          value |-> SubSeq(h, m + 1, n - 1),
          end |-> SkipWs(h, n + 1)]
    ELSE NoMatch

\* = \s* "value" \s*   with the key in i..j-1 and the equals sign expected at k
MatchEquals(h, i, j, k) ==
    IF j > i /\ k <= Len(h) /\ h[k] = "="
    THEN MatchValue(h, i, j, SkipWs(h, k + 1), QuoteAt(h, SkipWs(h, k + 1) + 1))
    ELSE NoMatch

\* the key of a pair begun at i, ending before j
MatchKey(h, i, j) == MatchEquals(h, i, j, SkipWs(h, j))

\* (?P<key>[A-Za-z]+) \s* = \s* "(?P<value>[^"]+)" \s*   anchored at i
MatchPair(h, i) == MatchKey(h, i, LetterRunEnd(h, i))

\* ((?P<method>[A-Za-z]+)\s) \s* ( pair )   with the method word in p..r-1
MatchWithMethod(h, p, r) ==
    IF r > p /\ r <= Len(h) /\ IsSpace(h[r])
    THEN MatchPair(h, SkipWs(h, r + 1))
    ELSE NoMatch

\* the optional method group is tried first, then dropped
MatchEither(h, p, r, withMethod, without) ==
    IF withMethod.ok
    THEN [ok |-> TRUE, method |-> Some(SubSeq(h, p, r - 1)),
          key |-> withMethod.key, value |-> withMethod.value,
          end |-> withMethod.end]
    ELSE IF without.ok
    THEN [ok |-> TRUE, method |-> NoneV,
          key |-> without.key, value |-> without.value,
          end |-> without.end]
    ELSE NoMatch

MatchWord(h, p, r) == MatchEither(h, p, r, MatchWithMethod(h, p, r), MatchPair(h, p))

MatchAfterWs(h, p) == MatchWord(h, p, LetterRunEnd(h, p))

\* the whole REGEX anchored at i: \s* ((?P<method>[A-Za-z]+)\s)? \s* ( pair )
MatchAt(h, i) == MatchAfterWs(h, SkipWs(h, i))

RECURSIVE FindFrom(_, _)
FirstMatch(m, h, i) == IF m.ok THEN m ELSE FindFrom(h, i + 1)

\* leftmost match starting at or after position i
FindFrom(h, i) ==
    IF i > Len(h) THEN NoMatch ELSE FirstMatch(MatchAt(h, i), h, i)

RECURSIVE CapturesFrom(_, _)
CapturesAfter(c, h) ==
    IF c.ok
    THEN << [method |-> c.method, key |-> c.key, value |-> c.value] >>
             \o CapturesFrom(h, c.end)
    ELSE <<>>

\* re.captures_iter(&header): the non-overlapping matches, left to right
CapturesFrom(h, i) == CapturesAfter(FindFrom(h, i), h)

Captures(h) == CapturesFrom(h, 1)

(* ------------------------------------------------------------------ *)
(* Words of the protocol                                              *)
(* ------------------------------------------------------------------ *)

W_bearer == << "b","e","a","r","e","r" >>
W_basic == << "b","a","s","i","c" >>
W_digest == << "d","i","g","e","s","t" >>
W_realm == << "r","e","a","l","m" >>
W_service == << "s","e","r","v","i","c","e" >>
W_scope == << "s","c","o","p","e" >>
W_error == << "e","r","r","o","r" >>
W_unauthenticated ==
    << "u","n","a","u","t","h","e","n","t","i","c","a","t","e","d" >>

(* ------------------------------------------------------------------ *)
(* Deserialising the captures into WwwAuthenticateHeaderContent        *)
(* ------------------------------------------------------------------ *)

\* the known fields of the struct behind each variant of the enum
FieldsOf(variant) ==
    IF variant = W_bearer THEN {W_realm, W_service, W_scope}
    ELSE IF variant = W_basic THEN {W_realm}
    ELSE {}

\* as KeyOf below, were the key not lower-cased
KeyOfVerbatim(capture) == capture.key

\* capture.name("key").map(|n| n.as_str().cow_to_lowercase())
KeyOf(capture) == LowerStr(capture.key)

\* capture.name("value").map(|n| n.as_str())
ValueOf(capture) == capture.value

\* the (key, value) entries handed to collect_map, in capture order
Entries(caps) == [i \in 1..Len(caps) |-> [key |-> KeyOf(caps[i]), value |-> ValueOf(caps[i])]]

\* the value of field f among the entries: None when no entry names it
FieldValue(entries, f) ==
    IF \E i \in 1..Len(entries) : entries[i].key = f
    THEN Some(entries[CHOOSE i \in 1..Len(entries) : entries[i].key = f].value)
    ELSE NoneV

\* serde's derived visit_map: a known field given twice is an error
HasDuplicateField(entries, fields) ==
    \E i, j \in 1..Len(entries) :
        i < j /\ entries[i].key = entries[j].key /\ entries[i].key \in fields

\* keys outside the struct: reported to the serde_ignored callback, then dropped
UnsupportedKeys(entries, fields) ==
    { entries[i].key : i \in { j \in 1..Len(entries) : entries[j].key \notin fields } }

\* as Deserialize below, were the structs to deny unknown fields
DeserializeDenyUnknown(method, entries) ==
    IF method \notin {W_bearer, W_basic} THEN Err("Json")
    ELSE IF UnsupportedKeys(entries, FieldsOf(method)) # {} THEN Err("Json")
    ELSE IF HasDuplicateField(entries, FieldsOf(method)) THEN Err("Json")
    ELSE IF ~FieldValue(entries, W_realm).some THEN Err("Json")
    ELSE IF method = W_bearer
    THEN Ok([scheme |-> W_bearer,
             realm |-> FieldValue(entries, W_realm).v,
             service |-> FieldValue(entries, W_service),
             scope |-> FieldValue(entries, W_scope)])
    ELSE Ok([scheme |-> W_basic,
             realm |-> FieldValue(entries, W_realm).v])

\* serde_ignored::deserialize of { "<method>": { <entries> } } into the
\* externally tagged enum with variants "bearer" and "basic"
Deserialize(method, entries) ==
    IF method \notin {W_bearer, W_basic} THEN Err("Json")
    ELSE IF HasDuplicateField(entries, FieldsOf(method)) THEN Err("Json")
    ELSE IF ~FieldValue(entries, W_realm).some THEN Err("Json")
    ELSE IF method = W_bearer
    THEN Ok([scheme |-> W_bearer,
             realm |-> FieldValue(entries, W_realm).v,
             service |-> FieldValue(entries, W_service),
             scope |-> FieldValue(entries, W_scope)])
    ELSE Ok([scheme |-> W_basic,
             realm |-> FieldValue(entries, W_realm).v])

\* captures.get(0)...name("method")...as_str().to_lowercase()
MethodOf(capture) == LowerStr(capture.method.v)

\* from_www_authentication_header from the captures on
content_of_captures(captures) ==
    IF captures = <<>> THEN Err("WwwHeaderParse_InvalidValue")
    ELSE IF ~captures[1].method.some
    THEN Err("WwwHeaderParse_FieldMethodMissing")
    ELSE Deserialize(MethodOf(captures[1]), Entries(captures))

\* WwwAuthenticateHeaderContent::from_www_authentication_header
from_www_authentication_header(header_value) ==
    IF \E i \in 1..Len(header_value) : header_value[i] = BadByte
    THEN Err("Utf8")
    ELSE content_of_captures(Captures(header_value))

(* ------------------------------------------------------------------ *)
(* Token endpoint synthesis                                           *)
(* ------------------------------------------------------------------ *)

S_service_q == << "?","s","e","r","v","i","c","e","=" >>
S_scope_eq == << "s","c","o","p","e","=" >>
S_amp == << "&" >>
S_qmark == << "?" >>

RECURSIVE ScopeFold(_, _, _)
\* scopes.iter().enumerate().fold(String::new(), |acc, (i, &s)| ...)
ScopeFold(acc, scopes, i) ==
    IF i >= Len(scopes) THEN acc
    ELSE LET separator == IF i > 0 THEN S_amp ELSE <<>>
         IN  ScopeFold(acc \o separator \o S_scope_eq \o scopes[i + 1], scopes, i + 1)

\* as auth_ep below, were the scopes always introduced by "&"
auth_ep_amp(self, scopes) ==
    self.realm
        \o (IF self.service.some THEN S_service_q \o self.service.v ELSE <<>>)
        \o (IF scopes = <<>> THEN <<>> ELSE S_amp)
        \o ScopeFold(<<>>, scopes, 0)

\* WwwAuthenticateHeaderContentBearer::auth_ep
auth_ep(self, scopes) ==
    LET service == IF self.service.some THEN S_service_q \o self.service.v ELSE <<>>
        scope == ScopeFold(<<>>, scopes, 0)
        scope_prefix ==
            IF scopes = <<>> THEN <<>>
            ELSE IF service = <<>> THEN S_qmark
            ELSE S_amp
    IN  self.realm \o service \o scope_prefix \o scope

RECURSIVE SchemeEnd(_, _)
\* the position of the ':' that ends a URL scheme begun at position 1, 0 if none
SchemeEnd(s, i) ==
    IF i > Len(s) THEN 0
    ELSE IF s[i] = ":" THEN i
    ELSE IF IsLetter(s[i]) \/ IsDigit(s[i]) \/ s[i] \in {"+", "-", "."}
    THEN SchemeEnd(s, i + 1)
    ELSE 0

\* reqwest::Url::parse(&auth_ep)?  an absolute URL needs a scheme; a string
\* without one is "relative URL without a base"
UrlParse(s) ==
    IF s # <<>> /\ IsLetter(s[1]) /\ SchemeEnd(s, 2) > 0
    THEN Ok(s)
    ELSE Err("UrlParse")

(* ------------------------------------------------------------------ *)
(* Auth and the requests a Client builds                              *)
(* ------------------------------------------------------------------ *)

\* Auth::Bearer(bearer_auth)
BearerOf(bearer_auth) == [kind |-> "Bearer", token |-> bearer_auth.token]

\* Auth::Basic(BasicAuth { user, password })
BasicOf(user, password) == [kind |-> "Basic", user |-> user, password |-> password]

\* as add_auth_headers below, were basic_auth called without the password
add_auth_headers_no_password(self) ==
    IF self.kind = "Bearer"
    THEN Some([scheme |-> "Bearer", token |-> self.token])
    ELSE Some([scheme |-> "Basic", user |-> self.user, password |-> NoneV])

\* Auth::add_auth_headers: the Authorization header an Auth value puts on a
\* request: bearer_auth(token), or basic_auth(user, password)
add_auth_headers(self) ==
    IF self.kind = "Bearer"
    THEN Some([scheme |-> "Bearer", token |-> self.token])
    ELSE Some([scheme |-> "Basic", user |-> self.user, password |-> self.password])

\* Client::build_reqwest: the request of a client whose auth slot is client_auth
build_reqwest(client_auth, method, url) ==
    [method |-> method,
     url |-> url,
     authorization |-> IF client_auth.some THEN add_auth_headers(client_auth.v) ELSE NoneV]

VARIABLES
    original,       \* the Client this Client was cloned from, as the caller keeps it
    client_config,  \* the Config the Client was built from: registry, accepted_types
    base_url,       \* Client.base_url
    accepted_types  \* Client.accepted_types: the list of (MediaTypes, Option<f64>)

\* registry names a Client is configured with
N_registry == << "r" >>
N_gcr == << "g","c","r",".","i","o" >>
N_sub_gcr == << "x",".","g","c","r",".","i","o" >>
N_not_gcr == << "x","g","c","r",".","i","o" >>

S_https == << "h","t","t","p","s",":","/","/" >>
S_dot_gcr == << ".","g","c","r",".","i","o" >>

\* str::ends_with
EndsWith(s, suffix) ==
    /\ Len(s) >= Len(suffix)
    /\ SubSeq(s, Len(s) - Len(suffix) + 1, Len(s)) = suffix

\* the registry host is gcr.io or ends in .gcr.io
is_gcr(registry) == registry = N_gcr \/ EndsWith(registry, S_dot_gcr)

\* a q-weight is a number of tenths: 5 is 0.5
DefaultAcceptedTypes ==
    << << "ManifestV2S2", Some(5) >>,
       << "ManifestV2S1Signed", Some(4) >>,
       << "ManifestList", Some(5) >> >>

\* the list without its weights
WithoutWeights(types) == [i \in 1..Len(types) |-> << types[i][1], NoneV >>]

\* Config::build: the accepted_types of the Client it builds
Config_accepted_types(registry, configured) ==
    IF is_gcr(registry)
    THEN WithoutWeights(IF configured.some THEN configured.v ELSE DefaultAcceptedTypes)
    ELSE IF configured.some THEN configured.v ELSE DefaultAcceptedTypes

\* Config::build: the base_url of the Client it builds (https registry)
Config_base_url(registry) == S_https \o registry

\* Client::configure().registry(registry): nothing else set
DefaultConfig == [registry |-> N_registry, accepted_types |-> NoneV]

\* Config::build as far as the manifest requests see it
\* this Client is no clone
NoClient == [none |-> TRUE]

Built(c) ==
    /\ original = NoClient
    /\ client_config = c
    /\ base_url = Config_base_url(c.registry)
    /\ accepted_types = Config_accepted_types(c.registry, c.accepted_types)

S_v2 == << "/","v","2","/" >>

\* format!("{}/v2/", self.base_url)
V2Endpoint == base_url \o S_v2

(* ------------------------------------------------------------------ *)
(* What the registry and the token service may answer                 *)
(* ------------------------------------------------------------------ *)

V_url == << "h",":","/","T" >>
V_rel == << "R","e","g" >>
V_service == << "S","v" >>
V_scope == << "s", ":", "P" >>
V_other == << "E" >>

PairKinds == {"realm_url", "realm_rel", "service", "scope", "error"}

PairKey(kind) ==
    CASE kind = "realm_url" -> W_realm
      [] kind = "realm_rel" -> W_realm
      [] kind = "service" -> W_service
      [] kind = "scope" -> W_scope
      [] kind = "error" -> W_error

PairValue(kind) ==
    CASE kind = "realm_url" -> V_url
      [] kind = "realm_rel" -> V_rel
      [] kind = "service" -> V_service
      [] kind = "scope" -> V_scope
      [] kind = "error" -> V_other

Styles == {"lower", "cap", "upper"}

\* a word in one of the letter cases a server may send it in
Styled(w, style) ==
    CASE style = "lower" -> w
      [] style = "upper" -> UpperStr(w)
      [] style = "cap" -> [i \in 1..Len(w) |-> IF i = 1 THEN ToUpper(w[i]) ELSE w[i]]

\* one key="value" pair as the server writes it
RenderPair(pair) ==
    Styled(PairKey(pair.kind), pair.style) \o << "=", "\"" >>
        \o PairValue(pair.kind) \o << "\"" >>

RECURSIVE RenderPairs(_, _)
RenderPairs(pairs, sep) ==
    IF pairs = <<>> THEN <<>>
    ELSE IF Len(pairs) = 1 THEN RenderPair(pairs[1])
    ELSE RenderPair(pairs[1]) \o sep \o RenderPairs(Tail(pairs), sep)

\* the header value a server sends for a challenge: scheme word, one space,
\* key="value" pairs with a separator between them
Render(ch) ==
    (IF ch.scheme = <<>> THEN <<>> ELSE Styled(ch.scheme, ch.style) \o << " " >>)
        \o RenderPairs(ch.pairs, ch.sep)

Pair(kind, style) == [kind |-> kind, style |-> style]

Sep_comma == << "," >>
Sep_comma_space == << ",", " " >>

\* a challenge as the server means it: the scheme word (empty: none), the
\* letter case it is written in, the pairs in order and their separator
ChallengeSep(scheme, style, pairs, sep) ==
    [scheme |-> scheme, style |-> style, pairs |-> pairs, sep |-> sep]

Challenge(scheme, style, pairs) == ChallengeSep(scheme, style, pairs, Sep_comma)

\* the challenges of the registries modelled in Spec
Challenges ==
    { Challenge(W_bearer, "cap", << Pair("realm_url", "lower"), Pair("service", "lower") >>),
      Challenge(W_bearer, "lower", << Pair("realm_url", "cap") >>),
      Challenge(W_bearer, "upper", << Pair("realm_rel", "upper") >>),
      Challenge(W_bearer, "cap", << Pair("realm_url", "lower"), Pair("error", "lower") >>),
      Challenge(W_bearer, "cap", << Pair("service", "lower") >>),
      Challenge(W_bearer, "cap", <<>>),
      Challenge(W_basic, "cap", << Pair("realm_rel", "lower") >>),
      Challenge(W_basic, "upper", << Pair("realm_rel", "cap"), Pair("service", "lower") >>),
      Challenge(W_digest, "cap", << Pair("realm_url", "lower") >>),
      Challenge(<<>>, "lower", << Pair("realm_url", "lower") >>) }

\* the challenge behind a header that is no rendering of one
NoShape == [scheme |-> <<>>, style |-> "lower", pairs |-> <<>>, sep |-> <<>>, raw |-> TRUE]

ProbeStatuses == {200, 401, 500}

\* a probe response: its status and its WWW-Authenticate header, if any; shape
\* is the challenge the server rendered the header from, which no client reads
ProbeResponse(status, www, shape) ==
    [io |-> TRUE, status |-> status, www |-> www, shape |-> shape]

\* the transport failed: send() returned an error
IoError == [io |-> FALSE]

ProbeResponses ==
    { ProbeResponse(st, NoneV, NoShape) : st \in ProbeStatuses }
        \cup { ProbeResponse(st, Some(Render(ch)), ch) : st \in ProbeStatuses, ch \in Challenges }
        \cup { ProbeResponse(401, Some(<< BadByte >>), NoShape) }
        \cup { IoError }

T_empty == <<>>
T_one == << "t" >>
T_two == << "t", "k" >>

Tokens == {T_empty, W_unauthenticated, T_one, T_two}

TokenStatuses == {200, 201, 401}

\* a token response: its status and its body, a JSON BearerAuth or not one
TokenResponse(status, body) == [io |-> TRUE, status |-> status, body |-> body]

TokenResponses ==
    { TokenResponse(st, Some([token |-> t])) : st \in TokenStatuses, t \in Tokens }
        \cup { TokenResponse(st, NoneV) : st \in TokenStatuses }
        \cup { IoError }

ScopeNames == { << "p" >>, << "q", ":", "x" >> }

RECURSIVE SeqsUpTo(_, _)
\* the sequences over S of length at most n
SeqsUpTo(S, n) ==
    IF n = 0 THEN { <<>> }
    ELSE LET shorter == SeqsUpTo(S, n - 1)
         IN  shorter \cup { Append(q, x) : q \in shorter, x \in S }

ScopeLists == SeqsUpTo(ScopeNames, MaxScopes)

U_user == << "u" >>
U_password == << "p", "w" >>

CredentialChoices == { NoneV, Some([user |-> U_user, password |-> U_password]) }

(* ------------------------------------------------------------------ *)
(* The Client and its operations                                      *)
(* ------------------------------------------------------------------ *)

VARIABLES
    credentials,    \* Client.credentials: Option<(user, password)>
    auth,           \* Client.auth: Option<Auth>
    pc,             \* where the running operation is suspended: idle when none runs
    scopes,         \* the scopes argument of the last operation, if authenticate
    auth_before,    \* Client.auth when the last operation began
    sent,           \* the requests the last operation has sent, in order
    probe,          \* the response to the probe, if the last operation is authenticate
    token_resp,     \* the response to its token request
    result,         \* the last operation and what it returned
    negotiation,    \* the last authenticate call: what its probe brought, how it ended,
                    \* the scheme of its challenge
    args,           \* the arguments of the last read operation (name, digest, ...)
    received,       \* the responses the last read operation has received, in order
    stream          \* the BlobStream the last get_blob_stream returned, if any

vars ==
    << original, client_config, base_url, accepted_types, credentials, auth, pc, scopes, auth_before, sent,
       probe, token_resp, result, negotiation, args, received, stream >>

\* the state only the manifest and blob operations write
read_vars == << args, stream >>

\* no arguments: the last operation is none of the manifest and blob operations
NoArgs == [none |-> TRUE]

\* no BlobStream exists
NoStream == [open |-> FALSE, none |-> TRUE]

\* an operation that is none of the manifest and blob operations starts: no
\* arguments of such an operation, and a BlobStream of an earlier call has
\* been dropped by then
NoRead == args' = NoArgs /\ stream' = NoStream

\* no response received (yet)
NoResponse == [io |-> FALSE, none |-> TRUE]

Pending == [ok |-> FALSE, pending |-> TRUE]

\* the operation did not return: a panic unwound it
Panicked == [ok |-> FALSE, panic |-> TRUE]

ErrStatus(status) == [ok |-> FALSE, err |-> "UnexpectedHttpStatus", status |-> status]
ErrToken(token) == [ok |-> FALSE, err |-> "InvalidAuthToken", token |-> token]

IsErr(ret) == ~ret.ok /\ "err" \in DOMAIN ret
IsErrNamed(ret, name) == IsErr(ret) /\ ret.err = name

\* no challenge, or none that parses
NoScheme == <<>>

\* the scheme of the challenge a probe response brought, as the parser reads it
SchemeOf(r) ==
    IF r.io /\ r.www.some /\ from_www_authentication_header(r.www.v).ok
    THEN from_www_authentication_header(r.www.v).v.scheme
    ELSE NoScheme

Init ==
    /\ Built(DefaultConfig)
    /\ credentials \in CredentialChoices
    /\ auth = NoneV
    /\ pc = "idle"
    /\ scopes = <<>>
    /\ auth_before = NoneV
    /\ sent = <<>>
    /\ probe = NoResponse
    /\ token_resp = NoResponse
    /\ result = [op |-> "none", ret |-> Ok(TRUE)]
    /\ negotiation = [probe |-> "unset", outcome |-> "unset", scheme |-> NoScheme]
    /\ args = NoArgs
    /\ received = <<>>
    /\ stream = NoStream

\* as get_www_authentication_header below, were a missing header reported as
\* a transport error
get_www_authentication_header_strict(r) ==
    IF ~r.io THEN Err("Reqwest")
    ELSE IF r.www.some THEN Ok(r.www.v)
    ELSE Err("Reqwest")

\* Client::get_www_authentication_header, from the probe's response on
get_www_authentication_header(r) ==
    IF ~r.io THEN Err("Reqwest")
    ELSE IF r.www.some THEN Ok(r.www.v)
    ELSE Err("MissingAuthHeader")

\* as auth_req_auth below, were the auth slot of the clone left as the
\* client's own
auth_req_auth_of_clone(creds) == auth

\* the client the token request is built from: Client { auth: credentials.map(Basic), ..client.clone() }
auth_req_auth(creds) ==
    IF creds.some
    THEN Some(BasicOf(creds.v.user, Some(creds.v.password)))
    ELSE NoneV

\* BearerAuth::try_from_header_content up to auth_req.send(): the token request, or the error
auth_req(creds, url) ==
    IF ~url.ok THEN Err(url.err)
    ELSE Ok(build_reqwest(auth_req_auth(creds), "GET", url.v))

try_from_header_content_request(sc, creds, bearer_header_content) ==
    auth_req(creds, UrlParse(auth_ep(bearer_header_content, sc)))

\* as IsRejectedToken below, were only the empty token rejected
IsRejectedTokenEmptyOnly(token) == token = <<>>

\* match bearer_auth.token.as_str() { "unauthenticated" | "" => ... }
IsRejectedToken(token) == token = W_unauthenticated \/ token = <<>>

\* chars.next().unwrap() and chars.last().unwrap() of the token masking: the
\* second unwrap finds None when the token has one character
MaskingPanics(token) == Len(token) < 2

\* as try_from_header_content_response below, were every status of the 2xx
\* class taken where 200 is
try_from_header_content_response_2xx(r) ==
    IF ~r.io THEN Err("Reqwest")
    ELSE IF r.status \notin 200..299 THEN ErrStatus(r.status)
    ELSE IF ~r.body.some THEN Err("Reqwest")
    ELSE IF IsRejectedToken(r.body.v.token) THEN ErrToken(r.body.v.token)
    ELSE IF MaskingPanics(r.body.v.token) THEN Panicked
    ELSE Ok(r.body.v)

\* BearerAuth::try_from_header_content from the token response on
try_from_header_content_response(r) ==
    IF ~r.io THEN Err("Reqwest")
    ELSE IF r.status # 200 THEN ErrStatus(r.status)
    ELSE IF ~r.body.some THEN Err("Reqwest")
    ELSE IF IsRejectedToken(r.body.v.token) THEN ErrToken(r.body.v.token)
    ELSE IF MaskingPanics(r.body.v.token) THEN Panicked
    ELSE Ok(r.body.v)

\* as SendProbe below, were the probe built from the client as it was when
\* authenticate was called
SendProbeBeforeClear(url) ==
    IF url.ok
    THEN /\ sent' = << build_reqwest(auth, "GET", url.v) >>
         /\ result' = [op |-> "authenticate", ret |-> Pending]
         /\ negotiation' = [probe |-> "sent", outcome |-> "running", scheme |-> NoScheme]
         /\ pc' = "probe"
    ELSE /\ sent' = <<>>
         /\ result' = [op |-> "authenticate", ret |-> Err(url.err)]
         /\ negotiation' = [probe |-> "unsent", outcome |-> "err", scheme |-> NoScheme]
         /\ pc' = "idle"

\* Client::get_www_authentication_header up to send(): the probe is built from
\* the client as it is now, or the URL of the endpoint does not parse
SendProbe(url) ==
    IF url.ok
    THEN /\ sent' = << build_reqwest(auth', "GET", url.v) >>
         /\ result' = [op |-> "authenticate", ret |-> Pending]
         /\ negotiation' = [probe |-> "sent", outcome |-> "running", scheme |-> NoScheme]
         /\ pc' = "probe"
    ELSE /\ sent' = <<>>
         /\ result' = [op |-> "authenticate", ret |-> Err(url.err)]
         /\ negotiation' = [probe |-> "unsent", outcome |-> "err", scheme |-> NoScheme]
         /\ pc' = "idle"

\* as Authenticate below, were the auth slot not cleared first
AuthenticateKeepsAuth(sc) ==
    /\ pc = "idle"
    /\ auth_before' = auth
    /\ auth' = auth
    /\ scopes' = sc
    /\ probe' = NoResponse
    /\ token_resp' = NoResponse
    /\ SendProbe(UrlParse(V2Endpoint))
    /\ received' = <<>>
    /\ UNCHANGED << original, client_config, base_url, accepted_types, credentials >>
    /\ NoRead

\* Client::authenticate up to the probe's send(): the auth slot is cleared and
\* the probe is built from the cleared client
Authenticate(sc) ==
    /\ pc = "idle"
    /\ auth_before' = auth
    /\ auth' = NoneV
    /\ scopes' = sc
    /\ probe' = NoResponse
    /\ token_resp' = NoResponse
    /\ SendProbe(UrlParse(V2Endpoint))
    /\ received' = <<>>
    /\ UNCHANGED << original, client_config, base_url, accepted_types, credentials >>
    /\ NoRead

\* how a call ended: it returned Ok, returned an error, or panicked
OutcomeOf(ret) == IF ret.ok THEN "ok" ELSE IF "err" \in DOMAIN ret THEN "err" ELSE "panic"

\* what a probe response brought: no response, no header, or a header
BroughtBy(r) == IF ~r.io THEN "io" ELSE IF r.www.some THEN "header" ELSE "none"

\* the running operation returns ret (or unwinds, when ret is Panicked)
Return(ret) ==
    /\ result' = [op |-> result.op, ret |-> ret]
    /\ pc' = "idle"

\* authenticate returns ret
ReturnAuth(ret) ==
    /\ Return(ret)
    /\ negotiation' = [probe |-> BroughtBy(probe'), outcome |-> OutcomeOf(ret),
                       scheme |-> SchemeOf(probe')]

\* the Bearer arm of authenticate up to the send() of the token request
BearerArm(req) ==
    IF req.ok
    THEN /\ sent' = Append(sent, req.v)
         /\ pc' = "token"
         /\ negotiation' = [negotiation EXCEPT !.probe = BroughtBy(probe'),
                                               !.scheme = SchemeOf(probe')]
         /\ UNCHANGED << auth, result >>
    ELSE ReturnAuth(Err(req.err)) /\ UNCHANGED << auth, sent >>

\* as BasicArm below, were the password left out of the BasicAuth
BasicArmNoPassword ==
    IF credentials.some
    THEN /\ auth' = Some(BasicOf(credentials.v.user, NoneV))
         /\ ReturnAuth(Ok(TRUE))
         /\ UNCHANGED sent
    ELSE ReturnAuth(Err("NoCredentials")) /\ UNCHANGED << auth, sent >>

\* the Basic arm of authenticate
BasicArm ==
    IF credentials.some
    THEN /\ auth' = Some(BasicOf(credentials.v.user, Some(credentials.v.password)))
         /\ ReturnAuth(Ok(TRUE))
         /\ UNCHANGED sent
    ELSE ReturnAuth(Err("NoCredentials")) /\ UNCHANGED << auth, sent >>

\* as ContentArm below, were the Basic arm taken whenever credentials are
\* stored
ContentArmBasicFirst(content) ==
    IF ~content.ok
    THEN ReturnAuth(Err(content.err)) /\ UNCHANGED << auth, sent >>
    ELSE IF content.v.scheme = W_basic \/ credentials.some
    THEN BasicArm
    ELSE BearerArm(try_from_header_content_request(scopes, credentials, content.v))

\* the match on the parsed header content
ContentArm(content) ==
    IF ~content.ok
    THEN ReturnAuth(Err(content.err)) /\ UNCHANGED << auth, sent >>
    ELSE IF content.v.scheme = W_basic
    THEN BasicArm
    ELSE BearerArm(try_from_header_content_request(scopes, credentials, content.v))

\* the match on the result of get_www_authentication_header
HeaderArm(header) ==
    IF header.ok
    THEN ContentArm(from_www_authentication_header(header.v))
    ELSE IF header.err = "MissingAuthHeader"
    THEN auth' = NoneV /\ ReturnAuth(Ok(TRUE)) /\ UNCHANGED sent
    ELSE ReturnAuth(Err(header.err)) /\ UNCHANGED << auth, sent >>

\* Client::authenticate from the probe's response to its return or to the
\* send() of the token request
ProbeAnswered(r) ==
    /\ pc = "probe"
    /\ probe' = r
    /\ UNCHANGED << original, client_config, base_url, accepted_types, credentials, scopes, auth_before, token_resp, received >>
    /\ UNCHANGED read_vars
    /\ HeaderArm(get_www_authentication_header(r))

\* the Bearer arm of authenticate after try_from_header_content(...).await
TokenArm(bearer_auth) ==
    IF bearer_auth.ok
    THEN auth' = Some(BearerOf(bearer_auth.v)) /\ ReturnAuth(Ok(TRUE))
    ELSE ReturnAuth(bearer_auth) /\ UNCHANGED auth

\* Client::authenticate from the token response to its return
TokenAnswered(r) ==
    /\ pc = "token"
    /\ token_resp' = r
    /\ probe' = probe
    /\ UNCHANGED << original, client_config, base_url, accepted_types, credentials, scopes, auth_before, sent, received >>
    /\ UNCHANGED read_vars
    /\ TokenArm(try_from_header_content_response(r))

IsAuthStatuses == {200, 204, 301, 401, 403, 500}

IsAuthResponses == { [io |-> TRUE, status |-> st] : st \in IsAuthStatuses } \cup { IoError }

\* Client::is_auth up to send(): the request is built from the client as it
\* is, or the URL of the endpoint does not parse
SendIsAuth(url) ==
    IF url.ok
    THEN /\ sent' = << build_reqwest(auth, "GET", url.v) >>
         /\ result' = [op |-> "is_auth", ret |-> Pending]
         /\ pc' = "is_auth"
    ELSE /\ sent' = <<>>
         /\ result' = [op |-> "is_auth", ret |-> Err(url.err)]
         /\ pc' = "idle"

\* Client::is_auth up to send()
IsAuth ==
    /\ pc = "idle"
    /\ SendIsAuth(UrlParse(V2Endpoint))
    /\ scopes' = <<>>
    /\ auth_before' = auth
    /\ probe' = NoResponse
    /\ token_resp' = NoResponse
    /\ received' = <<>>
    /\ UNCHANGED << original, client_config, base_url, accepted_types, credentials, auth, negotiation >>
    /\ NoRead

\* as IsAuthAnswered below, were 403 Forbidden read as "not authenticated" too
IsAuthAnsweredForbidden(r) ==
    /\ pc = "is_auth"
    /\ received' = << r >>
    /\ Return(IF ~r.io THEN Err("Reqwest")
              ELSE IF r.status = 200 THEN Ok(TRUE)
              ELSE IF r.status \in {401, 403} THEN Ok(FALSE)
              ELSE ErrStatus(r.status))
    /\ UNCHANGED << original, client_config, base_url, accepted_types, credentials, auth, scopes, auth_before, sent, probe, token_resp,
                    negotiation >>
    /\ UNCHANGED read_vars

\* as IsAuthAnswered below, were an auth the registry rejects dropped from
\* the Client
IsAuthAnsweredDroppingAuth(r) ==
    /\ pc = "is_auth"
    /\ received' = << r >>
    /\ Return(IF ~r.io THEN Err("Reqwest")
              ELSE IF r.status = 200 THEN Ok(TRUE)
              ELSE IF r.status = 401 THEN Ok(FALSE)
              ELSE ErrStatus(r.status))
    /\ auth' = IF r.io /\ r.status = 401 THEN NoneV ELSE auth
    /\ UNCHANGED << original, client_config, base_url, accepted_types, credentials, scopes,
                    auth_before, sent, probe, token_resp, negotiation >>
    /\ UNCHANGED read_vars

\* Client::is_auth from the response on
IsAuthAnswered(r) ==
    /\ pc = "is_auth"
    /\ received' = << r >>
    /\ Return(IF ~r.io THEN Err("Reqwest")
              ELSE IF r.status = 200 THEN Ok(TRUE)
              ELSE IF r.status = 401 THEN Ok(FALSE)
              ELSE ErrStatus(r.status))
    /\ UNCHANGED << original, client_config, base_url, accepted_types, credentials, auth, scopes, auth_before, sent, probe, token_resp,
                    negotiation >>
    /\ UNCHANGED read_vars

\* a caller calls authenticate with some list of scopes
CallAuthenticate == pc = "idle" /\ \E sc \in ScopeLists : Authenticate(sc)

\* the registry answers the probe, or the transport fails
ProbeStep == pc = "probe" /\ \E r \in ProbeResponses : ProbeAnswered(r)

\* the token service answers, or the transport fails
TokenStep == pc = "token" /\ \E r \in TokenResponses : TokenAnswered(r)

\* the registry answers the request of is_auth, or the transport fails
IsAuthStep == pc = "is_auth" /\ \E r \in IsAuthResponses : IsAuthAnswered(r)

Next ==
    \/ CallAuthenticate
    \/ ProbeStep
    \/ TokenStep
    \/ IsAuth
    \/ IsAuthStep

Spec == Init /\ [][Next]_vars

(* ------------------------------------------------------------------ *)
(* The challenge parser under every challenge of a bounded family      *)
(* ------------------------------------------------------------------ *)

FamilyKinds == {"realm_url", "service", "error"}

FamilyPairs == { Pair(k, st) : k \in FamilyKinds, st \in Styles }

FamilyPairLists == SeqsUpTo(FamilyPairs, MaxPairs)

ChallengeFamily ==
    { ChallengeSep(sc, st, ps, sep) :
        sc \in {W_bearer, W_basic, W_digest}, st \in Styles,
        ps \in FamilyPairLists, sep \in {Sep_comma, Sep_comma_space} }
      \cup { ChallengeSep(<<>>, "lower", ps, Sep_comma) : ps \in FamilyPairLists }

FamilyProbeResponses ==
    { ProbeResponse(401, Some(Render(ch)), ch) : ch \in ChallengeFamily }

FamilyTokenResponses ==
    { TokenResponse(200, Some([token |-> T_two])), TokenResponse(401, NoneV) }

InitChallenge == Init /\ credentials.some

\* a caller calls authenticate without scopes
CallAuthenticateNoScopes == Authenticate(<<>>)

\* the registry answers the probe with a challenge of the family
FamilyProbeStep == pc = "probe" /\ \E r \in FamilyProbeResponses : ProbeAnswered(r)

FamilyTokenStep == pc = "token" /\ \E r \in FamilyTokenResponses : TokenAnswered(r)

NextChallenge ==
    \/ CallAuthenticateNoScopes
    \/ FamilyProbeStep
    \/ FamilyTokenStep

SpecChallenge == InitChallenge /\ [][NextChallenge]_vars

(* ------------------------------------------------------------------ *)
(* ContentDigest: the declared digest and the running hash             *)
(* ------------------------------------------------------------------ *)

W_sha256 == << "s","h","a","2","5","6" >>
W_sha512 == << "s","h","a","5","1","2" >>
W_md5 == << "m","d","5" >>

HexDigits == << "0","1","2","3","4","5","6","7","8","9","a","b","c","d","e","f" >>

\* the number of hex digits of an algorithm's output; the hash functions of
\* the model are short stand-ins for SHA-256 and SHA-512, which keep what the
\* client relies on: a fixed output size, a state fed chunk by chunk, and a
\* result that depends on every byte and on the order of the bytes
HexLen(algorithm) == IF algorithm = W_sha256 THEN 1 + 1 ELSE 1 + 1 + 1

RECURSIVE Pow16(_)
Pow16(n) == IF n = 0 THEN 1 ELSE 16 * Pow16(n - 1)

HashModulus(algorithm) == Pow16(HexLen(algorithm))

\* the state of a fresh hasher
HashInit(algorithm) == IF algorithm = W_sha256 THEN 11 * 16 + 5 ELSE 3 * 256 + 10 * 16 + 7

\* the hasher's state after one more byte
HashStep(algorithm, h, byte) ==
    (h * 31 + byte + 7) % HashModulus(algorithm)

RECURSIVE HashUpdate(_, _, _)
\* Digest::update: the bytes are fed in order
HashUpdate(algorithm, h, bytes) ==
    IF bytes = <<>> THEN h
    ELSE HashUpdate(algorithm, HashStep(algorithm, h, Head(bytes)), Tail(bytes))

RECURSIVE ToHex(_, _)
\* n as width lower-case hex digits
ToHex(n, width) ==
    IF width = 0 THEN <<>>
    ELSE ToHex(n \div 16, width - 1) \o << HexDigits[(n % 16) + 1] >>

\* the hex of the hash of a whole byte sequence
HashHex(algorithm, bytes) ==
    ToHex(HashUpdate(algorithm, HashInit(algorithm), bytes), HexLen(algorithm))

RECURSIVE IndexOf(_, _, _)
\* the first position at or after i that holds c, 0 if none
IndexOf(s, c, i) ==
    IF i > Len(s) THEN 0
    ELSE IF s[i] = c THEN i
    ELSE IndexOf(s, c, i + 1)

\* the digest string split at its colon: algorithm and hex, given the colon at k
DigestParts(digest, k) ==
    [algorithm |-> SubSeq(digest, 1, k - 1), hex |-> SubSeq(digest, k + 1, Len(digest))]

\* ContentDigest with a fresh running hash
NewContentDigest(parts) ==
    [algorithm |-> parts.algorithm, expected |-> parts.hex,
     running |-> HashInit(parts.algorithm)]

ContentDigestOfParts(parts) ==
    IF parts.algorithm \notin {W_sha256, W_sha512} THEN Err("ContentDigestParse")
    ELSE IF Len(parts.hex) # HexLen(parts.algorithm) THEN Err("ContentDigestParse")
    ELSE Ok(NewContentDigest(parts))

\* ContentDigest::try_new: "<algo>:<hex>", the algorithm one of sha256 and
\* sha512, the hex of the algorithm's output size
ContentDigest_try_new(digest) ==
    IF IndexOf(digest, ":", 1) = 0 THEN Err("ContentDigestParse")
    ELSE ContentDigestOfParts(DigestParts(digest, IndexOf(digest, ":", 1)))

\* ContentDigest::update
ContentDigest_update(self, bytes) ==
    [self EXCEPT !.running = HashUpdate(self.algorithm, self.running, bytes)]

\* the hex of the finalised running hash
ComputedHex(self) == ToHex(self.running, HexLen(self.algorithm))

ErrDigest(declared, computed) ==
    [ok |-> FALSE, err |-> "DigestMismatch", declared |-> declared, computed |-> computed]

\* ContentDigest::verify: the hex strings are compared without regard to case
ContentDigest_verify(self) ==
    IF LowerStr(self.expected) = LowerStr(ComputedHex(self))
    THEN Ok(TRUE)
    ELSE ErrDigest(self.expected, ComputedHex(self))

(* ------------------------------------------------------------------ *)
(* Blob operations                                                    *)
(* ------------------------------------------------------------------ *)

S_blobs == << "/","b","l","o","b","s","/" >>
S_ns_q == << "?","n","s","=" >>

\* Client::blob_url before Url::parse
blob_ep(name, digest, ns) ==
    IF ns.some
    THEN base_url \o S_v2 \o name \o S_blobs \o digest \o S_ns_q \o ns.v
    ELSE base_url \o S_v2 \o name \o S_blobs \o digest

\* Client::blob_url
blob_url(name, digest, ns) == UrlParse(blob_ep(name, digest, ns))

\* StatusCode::is_success, is_client_error, is_server_error
is_success(status) == status \in 200..299
is_client_error(status) == status \in 400..499
is_server_error(status) == status \in 500..599

\* Response::error_for_status_ref: an error for a 4xx or 5xx status only
error_for_status_ref(resp) ==
    IF is_client_error(resp.status) \/ is_server_error(resp.status)
    THEN Err("Reqwest")
    ELSE Ok(resp)

ErrClient(status) == [ok |-> FALSE, err |-> "Client", status |-> status]
ErrServer(status) == [ok |-> FALSE, err |-> "Server", status |-> status]

\* BlobResponse::new, or the error of ContentDigest::try_new
BlobResponse_new(resp, digest) ==
    IF digest.ok
    THEN Ok([resp |-> resp, digest |-> digest.v])
    ELSE Err(digest.err)

\* the match on resp.error_for_status_ref() in get_blob_response
blob_response_of_status(resp, checked, digest) ==
    IF checked.ok THEN BlobResponse_new(resp, ContentDigest_try_new(digest))
    ELSE IF is_client_error(resp.status) THEN ErrClient(resp.status)
    ELSE IF is_server_error(resp.status) THEN ErrServer(resp.status)
    ELSE ErrStatus(resp.status)

\* Client::get_blob_response from the response on
get_blob_response(r, digest) ==
    IF ~r.io THEN Err("Reqwest")
    ELSE blob_response_of_status(r, error_for_status_ref(r), digest)

RECURSIVE Flatten(_)
\* the bytes of a sequence of chunks
Flatten(chunks) == IF chunks = <<>> THEN <<>> ELSE Head(chunks) \o Flatten(Tail(chunks))

\* as verified_blob below, were the digest not verified
unverified_blob(blob, digest) == Ok(blob)

\* BlobResponse::bytes once the body is in: digest.update(&blob); digest.verify()?; Ok(blob)
verified_blob(blob, digest) ==
    IF ContentDigest_verify(ContentDigest_update(digest, blob)).ok
    THEN Ok(blob)
    ELSE ContentDigest_verify(ContentDigest_update(digest, blob))

\* BlobResponse::bytes: self.resp.bytes().await? is the whole body, or the
\* transport's error
BlobResponse_bytes(self) ==
    IF self.resp.fails THEN Err("Reqwest")
    ELSE verified_blob(Flatten(self.resp.chunks), self.digest)

\* Client::get_blob from the response on
get_blob(blob_response) ==
    IF blob_response.ok THEN BlobResponse_bytes(blob_response.v) ELSE blob_response

\* BlobStream::new(self.resp.bytes_stream(), self.digest)
BlobStream_new(self) ==
    [open |-> TRUE,
     transport |-> self.resp.chunks,
     fails |-> self.resp.fails,
     digest |-> Some(self.digest),
     yielded |-> <<>>,
     ended |-> FALSE,
     eos |-> FALSE,
     calls |-> <<>>,
     terminal |-> NoneV]

\* as has_blob_of_status below, were every 2xx status read as "exists"
has_blob_of_success(status) == Ok(is_success(status))

\* the match on res.status() in has_blob
has_blob_of_status(status) == IF status = 200 THEN Ok(TRUE) ELSE Ok(FALSE)

\* Client::has_blob from the response on
has_blob(r) == IF ~r.io THEN Err("Reqwest") ELSE has_blob_of_status(r.status)

\* what the registry may answer to a blob request -------------------------

\* longest body of a blob response, in transport chunks
MaxChunks == 2

ChunkChoices == { << 1 >>, << 2, 1 >> }

ChunkLists == SeqsUpTo(ChunkChoices, MaxChunks)

BlobStatuses == {101, 200, 204, 304, 404, 503}

\* a response to a blob request: its status, the chunks its body arrives in,
\* and whether the transport fails after them
BlobResponseOf(status, chunks, fails) ==
    [io |-> TRUE, status |-> status, chunks |-> chunks, fails |-> fails]

BlobResponses ==
    { BlobResponseOf(st, ch, f) : st \in BlobStatuses, ch \in ChunkLists, f \in BOOLEAN }
        \cup { IoError }

HeadResponses == { BlobResponseOf(st, <<>>, FALSE) : st \in BlobStatuses } \cup { IoError }

\* "<algo>:<hex>"
DigestString(algorithm, hex) == algorithm \o << ":" >> \o hex

\* the bodies whose digests callers ask for
DeclaredBodies == { <<>>, << 1 >>, << 2, 1, 1 >> }

\* what callers pass as digest: true digests of bodies, in lower and in upper
\* case, and strings that are no digest
Digests ==
    { DigestString(W_sha256, HashHex(W_sha256, b)) : b \in DeclaredBodies }
        \cup { DigestString(W_sha256, UpperStr(HashHex(W_sha256, b))) : b \in DeclaredBodies }
        \cup { DigestString(W_sha512, HashHex(W_sha512, << 1 >>)),
               DigestString(W_md5, HashHex(W_sha256, << 1 >>)),
               DigestString(W_sha256, << "0" >>),
               W_sha256 }

N_image == << "i" >>
N_ns == << "n" >>

NsChoices == { NoneV, Some(N_ns) }

BlobArgs == { [name |-> N_image, digest |-> d, ns |-> ns] : d \in Digests, ns \in NsChoices }

\* the blob operations --------------------------------------------------

\* a read operation up to send(): the request is built from the client as it
\* is, or the URL of the endpoint does not parse
SendRead(op, method, url) ==
    IF url.ok
    THEN /\ sent' = << build_reqwest(auth, method, url.v) >>
         /\ result' = [op |-> op, ret |-> Pending]
         /\ pc' = op
    ELSE /\ sent' = <<>>
         /\ result' = [op |-> op, ret |-> Err(url.err)]
         /\ pc' = "idle"

\* a caller starts a read operation with arguments a; a BlobStream of an
\* earlier call has been dropped by then
StartRead(op, method, url, a) ==
    /\ pc = "idle"
    /\ SendRead(op, method, url)
    /\ args' = a
    /\ received' = <<>>
    /\ stream' = NoStream
    /\ scopes' = <<>>
    /\ auth_before' = auth
    /\ probe' = NoResponse
    /\ token_resp' = NoResponse
    /\ UNCHANGED << original, client_config, base_url, accepted_types, credentials, auth, negotiation >>

\* what a read operation leaves alone once it runs
ReadFrame == UNCHANGED << original, client_config, base_url, accepted_types, credentials, auth, scopes, auth_before, sent, probe,
                          token_resp, negotiation, args >>

\* Client::has_blob up to send()
HasBlob(a) == StartRead("has_blob", "HEAD", blob_url(a.name, a.digest, a.ns), a)

\* Client::has_blob from the response on
HasBlobAnswered(r) ==
    /\ pc = "has_blob"
    /\ received' = << r >>
    /\ Return(has_blob(r))
    /\ ReadFrame
    /\ UNCHANGED stream

\* Client::get_blob up to send()
GetBlob(a) == StartRead("get_blob", "GET", blob_url(a.name, a.digest, a.ns), a)

\* Client::get_blob from the response on
GetBlobAnswered(r) ==
    /\ pc = "get_blob"
    /\ received' = << r >>
    /\ Return(get_blob(get_blob_response(r, args.digest)))
    /\ ReadFrame
    /\ UNCHANGED stream

\* Client::get_blob_stream up to send()
GetBlobStream(a) ==
    StartRead("get_blob_stream", "GET", blob_url(a.name, a.digest, a.ns), a)

\* what get_blob_stream returns: the stream, or the error of get_blob_response
ReturnStream(blob_response) ==
    IF blob_response.ok
    THEN stream' = BlobStream_new(blob_response.v) /\ Return(Ok("BlobStream"))
    ELSE stream' = NoStream /\ Return(blob_response)

\* Client::get_blob_stream from the response on
GetBlobStreamAnswered(r) ==
    /\ pc = "get_blob_stream"
    /\ received' = << r >>
    /\ ReturnStream(get_blob_response(r, args.digest))
    /\ ReadFrame

\* as poll_end below, were a stream that yielded no chunk ended without
\* verification
poll_end_unless_empty(s, verdict) ==
    IF ~s.digest.some THEN [s EXCEPT !.eos = TRUE, !.ended = TRUE]
    ELSE IF verdict.ok \/ s.yielded = <<>>
    THEN [s EXCEPT !.eos = TRUE, !.digest = NoneV, !.calls = Append(@, "verify"),
                   !.terminal = Some(Len(s.yielded)), !.ended = TRUE]
    ELSE [s EXCEPT !.eos = TRUE, !.digest = NoneV, !.calls = Append(@, "verify"),
                   !.yielded = Append(@, verdict), !.terminal = Some(Len(s.yielded) + 1)]

\* as poll_end below, were the digest looked at and left in place (as_mut for
\* take)
poll_end_keeping_digest(s, verdict) ==
    IF ~s.digest.some THEN [s EXCEPT !.eos = TRUE, !.ended = TRUE]
    ELSE IF verdict.ok
    THEN [s EXCEPT !.eos = TRUE, !.calls = Append(@, "verify"),
                   !.terminal = Some(Len(s.yielded)), !.ended = TRUE]
    ELSE [s EXCEPT !.eos = TRUE, !.calls = Append(@, "verify"),
                   !.yielded = Append(@, verdict), !.terminal = Some(Len(s.yielded) + 1)]

\* poll_next, Poll::Ready(None) of the transport: the digest is taken and
\* verified; a mismatch is one more item, a match ends the stream. eos: the
\* transport has reported its end; calls: the calls made on the digest so
\* far; terminal: the number of items yielded when the digest was verified
poll_end(s, verdict) ==
    IF ~s.digest.some THEN [s EXCEPT !.eos = TRUE, !.ended = TRUE]
    ELSE IF verdict.ok
    THEN [s EXCEPT !.eos = TRUE, !.digest = NoneV, !.calls = Append(@, "verify"),
                   !.terminal = Some(Len(s.yielded)), !.ended = TRUE]
    ELSE [s EXCEPT !.eos = TRUE, !.digest = NoneV, !.calls = Append(@, "verify"),
                   !.yielded = Append(@, verdict), !.terminal = Some(Len(s.yielded) + 1)]

\* as poll_chunk below, were the chunk yielded without being fed to the digest
poll_chunk_without_update(s, chunk) ==
    IF ~s.digest.some THEN [s EXCEPT !.transport = Tail(@), !.ended = TRUE]
    ELSE [s EXCEPT !.transport = Tail(@), !.yielded = Append(@, Ok(chunk))]

\* poll_next, Poll::Ready(Some(Ok(chunk))) of the transport: the chunk is fed
\* to the digest and then yielded; without a digest the stream is over
poll_chunk(s, chunk) ==
    IF ~s.digest.some THEN [s EXCEPT !.transport = Tail(@), !.ended = TRUE]
    ELSE [s EXCEPT !.transport = Tail(@),
                   !.digest = Some(ContentDigest_update(@.v, chunk)),
                   !.calls = Append(@, "update"),
                   !.yielded = Append(@, Ok(chunk))]

\* poll_next, Poll::Ready(Some(Err(e))) of the transport: chunk_res? yields
\* the error; the transport has nothing after it
poll_error(s) ==
    IF ~s.digest.some THEN [s EXCEPT !.fails = FALSE, !.ended = TRUE]
    ELSE [s EXCEPT !.fails = FALSE, !.yielded = Append(@, Err("Reqwest"))]

\* the verdict of the digest a stream holds
StreamVerdict(s) == IF s.digest.some THEN ContentDigest_verify(s.digest.v) ELSE Ok(TRUE)

\* BlobStream::poll_next when the transport is ready (Poll::Pending changes
\* nothing): the stream after the call, its item appended to yielded
poll_next(s) ==
    IF s.transport # <<>> THEN poll_chunk(s, Head(s.transport))
    ELSE IF s.fails THEN poll_error(s)
    ELSE poll_end(s, StreamVerdict(s))

\* the consumer polls the stream it holds, until it has seen the end
PollNext ==
    /\ pc = "idle"
    /\ stream.open
    /\ ~stream.ended
    /\ stream' = poll_next(stream)
    /\ UNCHANGED << original, client_config, base_url, accepted_types, credentials, auth, pc, scopes, auth_before, sent, probe, token_resp,
                    result, negotiation, args, received >>

\* what a transport that has reported its end may do when polled again: report
\* the end again, or, not being fused, deliver a chunk or an error
LateOutcomes ==
    { [kind |-> "none"], [kind |-> "error"] }
        \cup { [kind |-> "chunk", chunk |-> c] : c \in ChunkChoices }

\* BlobStream::poll_next when the transport answers the poll with outcome
poll_next_on(s, outcome) ==
    CASE outcome.kind = "chunk"
            -> poll_chunk([s EXCEPT !.transport = << outcome.chunk >>], outcome.chunk)
      [] outcome.kind = "error" -> poll_error(s)
      [] outcome.kind = "none" -> poll_end(s, StreamVerdict(s))

\* the consumer polls a stream whose transport has reported its end before
PollNextAfterEnd ==
    /\ pc = "idle"
    /\ stream.open
    /\ stream.eos
    /\ \E outcome \in LateOutcomes : stream' = poll_next_on(stream, outcome)
    /\ UNCHANGED << original, client_config, base_url, accepted_types, credentials, auth, pc, scopes,
                    auth_before, sent, probe, token_resp, result, negotiation, args,
                    received >>

\* a client after construction, or after an authenticate call that stored
\* Bearer or Basic auth on it
ReadClients ==
    { [credentials |-> NoneV, auth |-> NoneV],
      [credentials |-> Some([user |-> U_user, password |-> U_password]),
       auth |-> Some(BearerOf([token |-> T_two]))],
      [credentials |-> Some([user |-> U_user, password |-> U_password]),
       auth |-> Some(BasicOf(U_user, Some(U_password)))] }

InitRead ==
    /\ Built(DefaultConfig)
    /\ \E c \in ReadClients : credentials = c.credentials /\ auth = c.auth
    /\ pc = "idle"
    /\ scopes = <<>>
    /\ auth_before = NoneV
    /\ sent = <<>>
    /\ probe = NoResponse
    /\ token_resp = NoResponse
    /\ result = [op |-> "none", ret |-> Ok(TRUE)]
    /\ negotiation = [probe |-> "unset", outcome |-> IF auth.some THEN "ok" ELSE "unset",
                      scheme |-> IF ~auth.some THEN NoScheme
                                 ELSE IF auth.v.kind = "Bearer" THEN W_bearer ELSE W_basic]
    /\ args = NoArgs
    /\ received = <<>>
    /\ stream = NoStream

CallHasBlob == pc = "idle" /\ \E a \in BlobArgs : HasBlob(a)

CallGetBlob == pc = "idle" /\ \E a \in BlobArgs : GetBlob(a)

CallGetBlobStream == pc = "idle" /\ \E a \in BlobArgs : GetBlobStream(a)

\* the registry answers the HEAD request, or the transport fails
HasBlobStep == pc = "has_blob" /\ \E r \in HeadResponses : HasBlobAnswered(r)

\* the registry answers the GET request, or the transport fails
GetBlobStep == pc = "get_blob" /\ \E r \in BlobResponses : GetBlobAnswered(r)

GetBlobStreamStep ==
    pc = "get_blob_stream" /\ \E r \in BlobResponses : GetBlobStreamAnswered(r)

NextBlob ==
    \/ CallHasBlob
    \/ HasBlobStep
    \/ CallGetBlob
    \/ GetBlobStep
    \/ CallGetBlobStream
    \/ GetBlobStreamStep
    \/ PollNext
    \/ PollNextAfterEnd

SpecBlob == InitRead /\ [][NextBlob]_vars

(* ------------------------------------------------------------------ *)
(* One body, cut into chunks in every way                             *)
(* ------------------------------------------------------------------ *)

RECURSIVE Splits(_)
\* the ways to cut bytes into chunks none of which is empty
Splits(bytes) ==
    IF bytes = <<>> THEN { <<>> }
    ELSE UNION { { << SubSeq(bytes, 1, k) >> \o rest :
                     rest \in Splits(SubSeq(bytes, k + 1, Len(bytes))) } :
                 k \in 1..Len(bytes) }

\* the bodies a registry answers with: those whose digests callers ask for,
\* and one nobody asks for
SplitBodies == DeclaredBodies \cup { << 1, 1 >> }

\* the 200 responses that deliver one of the bodies, in every split
SplitResponses ==
    { BlobResponseOf(200, ch, FALSE) : ch \in UNION { Splits(b) : b \in SplitBodies } }

\* the registry answers get_blob with one of the bodies
GetBlobSplitStep == pc = "get_blob" /\ \E r \in SplitResponses : GetBlobAnswered(r)

\* the registry answers get_blob_stream with one of the bodies
GetBlobStreamSplitStep ==
    pc = "get_blob_stream" /\ \E r \in SplitResponses : GetBlobStreamAnswered(r)

NextSplit ==
    \/ CallGetBlob
    \/ GetBlobSplitStep
    \/ CallGetBlobStream
    \/ GetBlobStreamSplitStep
    \/ PollNext
    \/ PollNextAfterEnd

SpecSplit == InitRead /\ [][NextSplit]_vars

(* ------------------------------------------------------------------ *)
(* Media types                                                        *)
(* ------------------------------------------------------------------ *)

\* enum MediaTypes
MediaTypes ==
    { "OciV1ManifestList", "OciV1Manifest", "OciV1ManifestConfig", "ManifestV2S1",
      "ManifestV2S1Signed", "ManifestV2S2", "ManifestList", "ImageLayerTgz",
      "ContainerConfigV1", "ApplicationJson" }

\* #[strum(serialize = "...")]: the string of each variant
Serialized(variant) ==
    CASE variant = "OciV1ManifestList" -> "application/vnd.oci.image.index.v1+json"
      [] variant = "OciV1Manifest" -> "application/vnd.oci.image.manifest.v1+json"
      [] variant = "OciV1ManifestConfig" -> "application/vnd.oci.image.config.v1+json"
      [] variant = "ManifestV2S1" -> "application/vnd.docker.distribution.manifest.v1+json"
      [] variant = "ManifestV2S1Signed"
            -> "application/vnd.docker.distribution.manifest.v1+prettyjws"
      [] variant = "ManifestV2S2" -> "application/vnd.docker.distribution.manifest.v2+json"
      [] variant = "ManifestList"
            -> "application/vnd.docker.distribution.manifest.list.v2+json"
      [] variant = "ImageLayerTgz" -> "application/vnd.docker.image.rootfs.diff.tar.gzip"
      [] variant = "ContainerConfigV1" -> "application/vnd.docker.container.image.v1+json"
      [] variant = "ApplicationJson" -> "application/json"

\* the Error a strum::ParseError becomes on its way out (.map_err(Into::into))
ErrParse == Err("UnknownMimeType")

\* MediaTypes::from_str (derive EnumString): the variant whose string is s
from_str(s) ==
    IF \E v \in MediaTypes : Serialized(v) = s
    THEN Ok(CHOOSE v \in MediaTypes : Serialized(v) = s)
    ELSE ErrParse

\* #[strum(props(Sub = "..."))]: the Sub property of each variant, a string
\* kept as the pieces around its "+"
Sub(variant) ==
    CASE variant = "OciV1ManifestList" -> << "vnd.oci.image.index.v1", "+", "json" >>
      [] variant = "OciV1Manifest" -> << "vnd.oci.image.manifest.v1", "+", "json" >>
      [] variant = "OciV1ManifestConfig" -> << "vnd.oci.image.config.v1", "+", "json" >>
      [] variant = "ManifestV2S1"
            -> << "vnd.docker.distribution.manifest.v1", "+", "json" >>
      [] variant = "ManifestV2S1Signed"
            -> << "vnd.docker.distribution.manifest.v1", "+", "prettyjws" >>
      [] variant = "ManifestV2S2"
            -> << "vnd.docker.distribution.manifest.v2", "+", "json" >>
      [] variant = "ManifestList"
            -> << "vnd.docker.distribution.manifest.list.v2", "+", "json" >>
      [] variant = "ImageLayerTgz" -> << "vnd.docker.image.rootfs.diff.tar.gzip" >>
      [] variant = "ContainerConfigV1" -> << "vnd.docker.container.image.v1", "+", "json" >>
      [] variant = "ApplicationJson" -> << "json" >>

\* a mime::Mime: type_(), subtype() (what precedes the "+") and suffix()
MimeOf(type, subtype, suffix) == [type |-> type, subtype |-> subtype, suffix |-> suffix]

\* mime::APPLICATION_JSON
APPLICATION_JSON == MimeOf("application", "json", NoneV)

\* format!("application/{s}").parse::<Mime>()
Mime_parse_application(s) ==
    IF Len(s) = 3 /\ s[2] = "+"
    THEN MimeOf("application", s[1], Some(s[3]))
    ELSE MimeOf("application", s[1], NoneV)

\* MediaTypes::to_mime
to_mime(self) ==
    IF self = "ApplicationJson" THEN APPLICATION_JSON ELSE Mime_parse_application(Sub(self))

ErrUnknownMimeType(mtype) == [ok |-> FALSE, err |-> "UnknownMimeType", mtype |-> mtype]

\* MediaTypes::from_mime, the match on (subt, suff)
from_subtype_suffix(mtype, subt, suff) ==
    CASE subt = "vnd.docker.distribution.manifest.v1" /\ suff = "json" -> Ok("ManifestV2S1")
      [] subt = "vnd.docker.distribution.manifest.v1" /\ suff = "prettyjws"
            -> Ok("ManifestV2S1Signed")
      [] subt = "vnd.docker.distribution.manifest.v2" /\ suff = "json" -> Ok("ManifestV2S2")
      [] subt = "vnd.docker.distribution.manifest.list.v2" /\ suff = "json"
            -> Ok("ManifestList")
      [] subt = "vnd.docker.image.rootfs.diff.tar.gzip" -> Ok("ImageLayerTgz")
      [] subt = "vnd.docker.container.image.v1" /\ suff = "json" -> Ok("ContainerConfigV1")
      [] OTHER -> ErrUnknownMimeType(mtype)

\* MediaTypes::from_mime
from_mime(mtype) ==
    IF mtype.type = "application" /\ mtype.subtype = "json" THEN Ok("ApplicationJson")
    ELSE IF mtype.type = "application" /\ mtype.suffix.some
    THEN from_subtype_suffix(mtype, mtype.subtype, mtype.suffix.v)
    ELSE ErrUnknownMimeType(mtype)

(* ------------------------------------------------------------------ *)
(* Manifest operations                                                *)
(* ------------------------------------------------------------------ *)

S_manifests == << "/","m","a","n","i","f","e","s","t","s","/" >>
S_pulp == << "/","p","u","l","p","/","d","o","c","k","e","r","/","v","2" >>

\* Client::manifest_url before Url::parse
manifest_ep(name, reference, ns) ==
    IF ns.some
    THEN base_url \o S_v2 \o name \o S_manifests \o reference \o S_ns_q \o ns.v
    ELSE base_url \o S_v2 \o name \o S_manifests \o reference

\* Client::manifest_url
manifest_url(name, reference, ns) == UrlParse(manifest_ep(name, reference, ns))

\* s begins with prefix
StartsWith(s, prefix) ==
    Len(s) >= Len(prefix) /\ SubSeq(s, 1, Len(prefix)) = prefix

RECURSIVE PathEnd(_, _)
\* the first position at or after i that holds '?' or '#', Len+1 if none
PathEnd(url, i) ==
    IF i > Len(url) \/ url[i] \in {"?", "#"} THEN i ELSE PathEnd(url, i + 1)

\* the path of a URL whose scheme ends at position k: what follows the
\* authority, when "//" introduces one, up to the query or the fragment
PathAfterScheme(url, k) ==
    IF SubSeq(url, k + 1, k + 2) = << "/", "/" >>
    THEN IF IndexOf(url, "/", k + 3) = 0 THEN << "/" >>
         ELSE SubSeq(url, IndexOf(url, "/", k + 3), PathEnd(url, k + 3) - 1)
    ELSE SubSeq(url, k + 1, PathEnd(url, k + 1) - 1)

\* Url::path
url_path(url) == PathAfterScheme(url, IndexOf(url, ":", 1))

\* a header value that is not visible ASCII: HeaderValue::to_str fails on it
OpaqueHeader == "<opaque>"

\* HeaderValue::to_str
to_str(hv) == IF hv = OpaqueHeader THEN Err("ToStr") ELSE Ok(hv)

\* content_type.map(|hv| hv.to_str()).map(Result::unwrap_or_default)
header_content_type(content_type) ==
    IF ~content_type.some THEN NoneV
    ELSE IF to_str(content_type.v).ok THEN Some(content_type.v)
    ELSE Some("")

\* as media_type_of below, were the workaround applied on every path
media_type_of_any_path(header, is_pulp_based) ==
    IF ~header.some
    THEN from_str("application/vnd.docker.distribution.manifest.v1+prettyjws")
    ELSE IF header.v = "application/x-troff-man"
    THEN from_str("application/vnd.docker.distribution.manifest.v1+prettyjws")
    ELSE from_str(header.v)

\* the match on (header_content_type, is_pulp_based) in evaluate_media_type
media_type_of(header, is_pulp_based) ==
    IF header.some /\ ~is_pulp_based THEN from_str(header.v)
    ELSE IF ~header.some /\ ~is_pulp_based THEN Err("MediaTypeSniff")
    ELSE IF header.some
    THEN IF header.v = "application/x-troff-man"
         THEN from_str("application/vnd.docker.distribution.manifest.v1+prettyjws")
         ELSE from_str(header.v)
    ELSE from_str("application/vnd.docker.distribution.manifest.v1+prettyjws")

\* evaluate_media_type
evaluate_media_type(content_type, url) ==
    media_type_of(header_content_type(content_type), StartsWith(url_path(url), S_pulp))

\* the Docker-Content-Digest header as Option<String>, or the error of to_str
content_digest_of(header) ==
    IF ~header.some THEN Ok(NoneV)
    ELSE IF to_str(header.v).ok THEN Ok(Some(header.v))
    ELSE Err("ToStr")

\* serde_json::from_slice into a struct whose required fields are fields
HasFields(body, fields) == body.json /\ fields \subseteq DOMAIN body.doc

\* serde_json::from_slice::<ManifestSchema1Signed>
decode_schema1(body) ==
    IF HasFields(body, {"architecture", "fsLayers"}) THEN Ok(body.doc) ELSE Err("Json")

\* Config: mediaType, size, digest
IsConfig(config) == {"mediaType", "size", "digest"} \subseteq DOMAIN config

\* serde_json::from_slice::<ManifestSchema2Spec>: schemaVersion, mediaType (a
\* MediaTypes, read from its string), config, layers
decode_schema2(body) ==
    IF /\ HasFields(body, {"schemaVersion", "mediaType", "config", "layers"})
       /\ from_str(body.doc.mediaType).ok
       /\ IsConfig(body.doc.config)
    THEN Ok(body.doc)
    ELSE Err("Json")

\* serde_json::from_slice::<ManifestList>: schemaVersion, mediaType, manifests
decode_list(body) ==
    IF HasFields(body, {"schemaVersion", "mediaType", "manifests"})
    THEN Ok(body.doc)
    ELSE Err("Json")

\* r.json::<ConfigBlob>(): architecture
decode_config_blob(body) ==
    IF HasFields(body, {"architecture"}) THEN Ok(body.doc) ELSE Err("Reqwest")

\* Manifest::S1Signed, Manifest::S2, Manifest::ML
Manifest_S1Signed(m) == [variant |-> "S1Signed", m |-> m]
Manifest_S2(manifest_spec, config_blob) ==
    [variant |-> "S2", manifest_spec |-> manifest_spec, config_blob |-> config_blob]
Manifest_ML(m) == [variant |-> "ML", m |-> m]

\* Manifest::media_type
media_type(self) ==
    CASE self.variant = "S1Signed" -> "ManifestV2S1Signed"
      [] self.variant = "S2" -> "ManifestV2S2"
      [] self.variant = "ML" -> "ManifestList"

\* ManifestSchema1Signed::get_layers: the fsLayers digests, base image first
RECURSIVE S1_get_layers(_)
S1_get_layers(m) ==
    IF m.fsLayers = <<>> THEN <<>>
    ELSE Append(S1_get_layers([m EXCEPT !.fsLayers = Tail(m.fsLayers)]), Head(m.fsLayers))

\* ManifestSchema2::get_layers
S2_get_layers(self) ==
    [i \in 1..Len(self.manifest_spec.layers) |-> self.manifest_spec.layers[i].digest]

\* ManifestSchema2::architecture
S2_architecture(self) == self.config_blob.architecture

\* ManifestList::architectures
ML_architectures(self) ==
    [i \in 1..Len(self.manifests) |-> self.manifests[i].platform.architecture]

\* as get_digests below, were the digests given last entry first
get_digests_reversed(self) ==
    [i \in 1..Len(self.manifests) |-> self.manifests[Len(self.manifests) + 1 - i].digest]

\* ManifestList::get_digests
get_digests(self) == [i \in 1..Len(self.manifests) |-> self.manifests[i].digest]

\* Manifest::architectures: the elements of the iterator it returns
architectures(self) ==
    CASE self.variant = "S1Signed" -> Ok(<< self.m.architecture >>)
      [] self.variant = "S2" -> Ok(<< S2_architecture(self) >>)
      [] self.variant = "ML" -> Ok(ML_architectures(self.m))

\* as checked_layers below, were the architecture not compared
unchecked_layers(self_architectures, a, layers) ==
    IF self_architectures = <<>> THEN Err("NoArchitecture") ELSE Ok(layers)

\* Manifest::layers_digests, an arm with Some(a): the first architecture of
\* the manifest is compared with a
checked_layers(self_architectures, a, layers) ==
    IF self_architectures = <<>> THEN Err("NoArchitecture")
    ELSE IF Head(self_architectures) # a THEN Err("ArchitectureMismatch")
    ELSE Ok(layers)

\* Manifest::layers_digests: the elements of the iterator it returns
layers_digests(self, architecture) ==
    IF self.variant = "S1Signed" /\ ~architecture.some THEN Ok(S1_get_layers(self.m))
    ELSE IF self.variant = "S2" /\ ~architecture.some THEN Ok(S2_get_layers(self))
    ELSE IF self.variant = "S1Signed" /\ architectures(self).ok
    THEN checked_layers(architectures(self).v, architecture.v, S1_get_layers(self.m))
    ELSE IF self.variant = "S2" /\ architectures(self).ok
    THEN checked_layers(architectures(self).v, architecture.v, S2_get_layers(self))
    ELSE IF self.variant = "ML" THEN Ok(get_digests(self.m))
    ELSE Err("LayerDigestsUnsupported")

\* get_raw_manifest_and_metadata after the status: the headers, then the body
raw_manifest_of(r, content_digest, mtype) ==
    IF ~content_digest.ok THEN content_digest
    ELSE IF ~mtype.ok THEN mtype
    ELSE IF r.fails THEN Err("Reqwest")
    ELSE Ok([body |-> r.body, media_type |-> mtype.v, content_digest |-> content_digest.v])

\* Client::get_raw_manifest_and_metadata from the response on
get_raw_manifest_and_metadata(r) ==
    IF ~r.io THEN Err("Reqwest")
    ELSE IF r.status # 200 THEN ErrStatus(r.status)
    ELSE raw_manifest_of(r, content_digest_of(r.content_digest),
                         evaluate_media_type(r.content_type, r.url))

ErrUnsupported(mtype) == [ok |-> FALSE, err |-> "UnsupportedMediaType", media_type |-> mtype]

\* (manifest, content_digest), or the error of the decoding
WithRef(manifest, content_digest) ==
    IF manifest.ok
    THEN Ok([manifest |-> manifest.v, content_digest |-> content_digest])
    ELSE manifest

S1SignedOf(decoded) == IF decoded.ok THEN Ok(Manifest_S1Signed(decoded.v)) ELSE decoded
MLOf(decoded) == IF decoded.ok THEN Ok(Manifest_ML(decoded.v)) ELSE decoded

\* as manifest_of_raw below, were the unsigned schema 1 type decoded like the
\* signed one
manifest_of_raw_schema1(raw) ==
    IF raw.media_type \in {"ManifestV2S1Signed", "ManifestV2S1"}
    THEN WithRef(S1SignedOf(decode_schema1(raw.body)), raw.content_digest)
    ELSE IF raw.media_type = "ManifestList"
    THEN WithRef(MLOf(decode_list(raw.body)), raw.content_digest)
    ELSE ErrUnsupported(raw.media_type)

\* the arms of get_manifest_and_ref that return at once: every media type but
\* ManifestV2S2
manifest_of_raw(raw) ==
    IF raw.media_type = "ManifestV2S1Signed"
    THEN WithRef(S1SignedOf(decode_schema1(raw.body)), raw.content_digest)
    ELSE IF raw.media_type = "ManifestList"
    THEN WithRef(MLOf(decode_list(raw.body)), raw.content_digest)
    ELSE ErrUnsupported(raw.media_type)

\* fetch_config_blob: the endpoint of the config blob
config_blob_ep(m, repo) == base_url \o S_v2 \o repo \o S_blobs \o m.config.digest

\* as fetch_config_blob below, were the status of the response not looked at
fetch_config_blob_any_status(m, r) ==
    IF ~r.io THEN Err("Reqwest")
    ELSE IF ~decode_config_blob(r.body).ok THEN decode_config_blob(r.body)
    ELSE Ok(Manifest_S2(m, decode_config_blob(r.body).v))

\* ManifestSchema2Spec::fetch_config_blob from the response on
fetch_config_blob(m, r) ==
    IF ~r.io THEN Err("Reqwest")
    ELSE IF ~is_success(r.status) THEN ErrStatus(r.status)
    ELSE IF ~decode_config_blob(r.body).ok THEN decode_config_blob(r.body)
    ELSE Ok(Manifest_S2(m, decode_config_blob(r.body).v))

\* as status_of_get_manifestref below, were every 2xx status accepted
status_of_get_manifestref_2xx(r) ==
    IF is_success(r.status) THEN content_digest_of(r.content_digest)
    ELSE ErrStatus(r.status)

\* the match on the status in get_manifestref, and the header after it
status_of_get_manifestref(r) ==
    IF r.status = 200 THEN content_digest_of(r.content_digest)
    ELSE ErrStatus(r.status)

\* Client::get_manifestref from the response on
get_manifestref(r) ==
    IF ~r.io THEN Err("Reqwest") ELSE status_of_get_manifestref(r)

\* Some(media_type), or the error of evaluate_media_type
SomeMediaType(mtype) == IF mtype.ok THEN Ok(Some(mtype.v)) ELSE mtype

\* as status_of_has_manifest below, were 308 Permanent Redirect matched where
\* 307 Temporary Redirect is
status_of_has_manifest_308(r) ==
    IF r.status \in {301, 308, 302, 200}
    THEN SomeMediaType(evaluate_media_type(r.content_type, r.url))
    ELSE IF r.status = 404 THEN Ok(NoneV)
    ELSE ErrStatus(r.status)

\* the match on the status in has_manifest
status_of_has_manifest(r) ==
    IF r.status \in {301, 307, 302, 200}
    THEN SomeMediaType(evaluate_media_type(r.content_type, r.url))
    ELSE IF r.status = 404 THEN Ok(NoneV)
    ELSE ErrStatus(r.status)

\* Client::has_manifest from the response on
has_manifest(r) == IF ~r.io THEN Err("Reqwest") ELSE status_of_has_manifest(r)

\* what the registry may answer to a manifest request ------------------

N_tag == << "t" >>

ManifestArgs == { [name |-> N_image, reference |-> N_tag, ns |-> ns] : ns \in NsChoices }

\* the mediatypes argument of has_manifest: none, or an override list: empty,
\* of two strings that name a variant, or of one that names none and one that
\* names one
MediaTypesChoices ==
    { NoneV,
      Some(<<>>),
      Some(<< Serialized("ManifestV2S2"), Serialized("ManifestList") >>),
      Some(<< "text/plain", Serialized("ManifestList") >>) }

HasManifestArgs ==
    { [name |-> N_image, reference |-> N_tag, ns |-> ns, mediatypes |-> NoneV] :
        ns \in NsChoices }
      \cup { [name |-> N_image, reference |-> N_tag, ns |-> NoneV, mediatypes |-> mt] :
                mt \in MediaTypesChoices }

\* the URL a response comes from: the URL of the request, or one a redirect
\* led to: on a pulp path, or on a path that holds the pulp prefix further in
ResponseUrls(a) ==
    { manifest_ep(a.name, a.reference, a.ns),
      base_url \o S_pulp \o << "/" >> \o a.name,
      base_url \o << "/", "m" >> \o S_pulp }

ContentTypes ==
    { NoneV, Some("application/x-troff-man"), Some("text/plain"), Some(OpaqueHeader) }
        \cup { Some(Serialized(v)) : v \in MediaTypes }

ContentDigestHeaders == { NoneV, Some("sha256:ab"), Some(OpaqueHeader) }

\* a body that is no JSON document, and one that is
NotJson == [json |-> FALSE]
JsonBody(doc) == [json |-> TRUE, doc |-> doc]

\* the digest of the config blob a schema 2 manifest names
D_config == DigestString(W_sha256, HashHex(W_sha256, << 1 >>))

Doc_schema1 == [schemaVersion |-> 1, architecture |-> "amd64", fsLayers |-> << "sha256:l1" >>]

Doc_schema2 ==
    [schemaVersion |-> 1 + 1,
     mediaType |-> "application/vnd.docker.distribution.manifest.v2+json",
     config |-> [mediaType |-> "application/vnd.docker.container.image.v1+json",
                 size |-> 7, digest |-> D_config],
     layers |-> << [mediaType |-> "application/vnd.docker.image.rootfs.diff.tar.gzip",
                    size |-> 3, digest |-> "sha256:l1"] >>]

\* a schema 2 document whose mediaType is outside the closed set
Doc_schema2_text == [Doc_schema2 EXCEPT !.mediaType = "text/plain"]

Doc_list ==
    [schemaVersion |-> 1 + 1,
     mediaType |-> "application/vnd.docker.distribution.manifest.list.v2+json",
     manifests |-> << >>]

Doc_other == [comment |-> "x"]

Doc_config_blob == [architecture |-> "amd64"]

ManifestBodies ==
    { NotJson, JsonBody(Doc_schema1), JsonBody(Doc_schema2), JsonBody(Doc_schema2_text),
      JsonBody(Doc_list), JsonBody(Doc_other) }

\* a response to a manifest request; fails: the transport fails while the
\* body is read
ManifestResponseOf(status, url, content_type, content_digest, body, fails) ==
    [io |-> TRUE, status |-> status, url |-> url, content_type |-> content_type,
     content_digest |-> content_digest, body |-> body, fails |-> fails]

PlainManifestResponse(status, a) ==
    ManifestResponseOf(status, manifest_ep(a.name, a.reference, a.ns),
                       Some(Serialized("ManifestV2S2")), NoneV, JsonBody(Doc_schema2), FALSE)

ManifestGetResponses(a) ==
    { ManifestResponseOf(200, u, ct, cd, b, FALSE) :
        u \in ResponseUrls(a), ct \in ContentTypes, cd \in ContentDigestHeaders,
        b \in ManifestBodies }
      \cup { ManifestResponseOf(200, manifest_ep(a.name, a.reference, a.ns),
                                Some(Serialized(v)), NoneV, JsonBody(Doc_list), TRUE) :
               v \in {"ManifestList", "ManifestV2S2"} }
      \cup { PlainManifestResponse(st, a) : st \in {201, 301, 404, 500} }
      \cup { IoError }

HasManifestStatuses == {200, 204, 301, 302, 307, 308, 401, 404, 500}

HasManifestResponses(a) ==
    { ManifestResponseOf(st, u, ct, NoneV, NotJson, FALSE) :
        st \in HasManifestStatuses, u \in ResponseUrls(a), ct \in ContentTypes }
      \cup { IoError }

ManifestrefStatuses == {200, 204, 301, 404, 500}

ManifestrefResponses(a) ==
    { ManifestResponseOf(st, manifest_ep(a.name, a.reference, a.ns),
                         Some(Serialized("ManifestV2S2")), cd, NotJson, FALSE) :
        st \in ManifestrefStatuses, cd \in ContentDigestHeaders }
      \cup { IoError }

ConfigBlobStatuses == {200, 204, 304, 404, 500}

\* the octets of a config blob body: those that hash to D_config, and others
ConfigBlobBytes == { << 1 >>, << 2, 1 >> }

\* a response to the config blob request: bytes are the octets of its body,
\* body is what they read as
ConfigBlobResponses ==
    { [io |-> TRUE, status |-> st, bytes |-> by, body |-> b] :
        st \in ConfigBlobStatuses,
        by \in ConfigBlobBytes,
        b \in { JsonBody(Doc_config_blob), JsonBody(Doc_other), NotJson } }
      \cup { IoError }

\* Display of the f64 that is w tenths
fmt_f64(w) ==
    IF w = 0 THEN "0"
    ELSE IF w = 10 THEN "1"
    ELSE << "0.1", "0.2", "0.3", "0.4", "0.5", "0.6", "0.7", "0.8", "0.9" >>[w]

\* as accept_entry below, were the weight never written
accept_entry_no_weight(ty, q) == << Serialized(ty) >>

\* build_accept_headers, the closure of map: format!("{}{}", ty, "; q={}" or "")
accept_entry(ty, q) ==
    IF q.some THEN << Serialized(ty), "; q=", fmt_f64(q.v) >> ELSE << Serialized(ty) >>

\* [String]::join
RECURSIVE join(_, _)
join(v, sep) ==
    IF v = <<>> THEN <<>>
    ELSE IF Len(v) = 1 THEN v[1]
    ELSE v[1] \o << sep >> \o join(Tail(v), sep)

\* build_accept_headers: the header map with the one Accept value, a string
\* kept as the sequence of the pieces it is written from
build_accept_headers(types) ==
    [accept |-> join([i \in 1..Len(types) |-> accept_entry(types[i][1], types[i][2])], ",")]

\* RequestBuilder::headers: the caller's headers put on the request
with_headers(request, headers) ==
    [method |-> request.method,
     url |-> request.url,
     authorization |-> request.authorization,
     accept |-> headers.accept]

\* a manifest operation up to send(): the request with its Accept header
\* leaves, or the URL does not parse and the call returns
SendManifestRead(op, method, url, headers) ==
    IF url.ok
    THEN /\ sent' = << with_headers(build_reqwest(auth, method, url.v), headers) >>
         /\ result' = [op |-> op, ret |-> Pending]
         /\ pc' = op
    ELSE /\ sent' = <<>>
         /\ result' = [op |-> op, ret |-> Err(url.err)]
         /\ pc' = "idle"

\* a caller starts a manifest operation with arguments a
StartManifestRead(op, method, url, headers, a) ==
    /\ pc = "idle"
    /\ SendManifestRead(op, method, url, headers)
    /\ args' = a
    /\ received' = <<>>
    /\ stream' = NoStream
    /\ scopes' = <<>>
    /\ auth_before' = auth
    /\ probe' = NoResponse
    /\ token_resp' = NoResponse
    /\ UNCHANGED << original, client_config, base_url, accepted_types, credentials, auth, negotiation >>

\* the manifest operations ----------------------------------------------

\* Client::get_manifest_and_ref (get_manifest is its first component) up to
\* the send() of get_raw_manifest_and_metadata
GetManifestAndRef(a) ==
    StartManifestRead("get_manifest_and_ref", "GET",
                      manifest_url(a.name, a.reference, a.ns),
                      build_accept_headers(accepted_types), a)

\* as SendConfigBlob below, were the request sent a second time
SendConfigBlobAgain(url) ==
    IF url.ok
    THEN /\ sent' = sent \o << build_reqwest(auth, "GET", url.v),
                                build_reqwest(auth, "GET", url.v) >>
         /\ pc' = "fetch_config_blob"
         /\ UNCHANGED result
    ELSE Return(Err(url.err)) /\ UNCHANGED sent

\* fetch_config_blob up to send(): the follow-up request, or the URL of the
\* config blob does not parse
SendConfigBlob(url) ==
    IF url.ok
    THEN /\ sent' = Append(sent, build_reqwest(auth, "GET", url.v))
         /\ pc' = "fetch_config_blob"
         /\ UNCHANGED result
    ELSE Return(Err(url.err)) /\ UNCHANGED sent

\* the ManifestV2S2 arm of get_manifest_and_ref up to the send() of the
\* follow-up request
Schema2Arm(m) ==
    IF m.ok
    THEN SendConfigBlob(UrlParse(config_blob_ep(m.v, args.name)))
    ELSE Return(m) /\ UNCHANGED sent

\* the match on media_type in get_manifest_and_ref
MediaTypeArm(raw) ==
    IF ~raw.ok THEN Return(raw) /\ UNCHANGED sent
    ELSE IF raw.v.media_type = "ManifestV2S2" THEN Schema2Arm(decode_schema2(raw.v.body))
    ELSE Return(manifest_of_raw(raw.v)) /\ UNCHANGED sent

\* what the manifest operations leave alone once they run
ManifestFrame ==
    UNCHANGED << original, client_config, base_url, accepted_types, credentials, auth, scopes, auth_before, probe, token_resp, negotiation,
                 args, stream >>

\* Client::get_manifest_and_ref from the manifest response to its return or
\* to the send() of the follow-up request
ManifestAnswered(r) ==
    /\ pc = "get_manifest_and_ref"
    /\ received' = << r >>
    /\ MediaTypeArm(get_raw_manifest_and_metadata(r))
    /\ ManifestFrame

\* Client::get_manifest_and_ref from the response to the follow-up request on
ConfigBlobAnswered(r) ==
    /\ pc = "fetch_config_blob"
    /\ received' = Append(received, r)
    /\ Return(WithRef(fetch_config_blob(decode_schema2(received[1].body).v, r),
                      content_digest_of(received[1].content_digest).v))
    /\ UNCHANGED sent
    /\ ManifestFrame

\* Client::get_manifestref up to send()
GetManifestref(a) ==
    StartManifestRead("get_manifestref", "HEAD",
                      manifest_url(a.name, a.reference, a.ns),
                      build_accept_headers(accepted_types), a)

\* Client::get_manifestref from the response on
GetManifestrefAnswered(r) ==
    /\ pc = "get_manifestref"
    /\ received' = << r >>
    /\ Return(get_manifestref(r))
    /\ UNCHANGED sent
    /\ ManifestFrame

\* to_mimes: the Mime of every string of v that names a variant, in order
RECURSIVE to_mimes(_)
to_mimes(v) ==
    IF v = <<>> THEN <<>>
    ELSE (IF from_str(v[1]).ok THEN << to_mime(from_str(v[1]).v) >> ELSE <<>>)
            \o to_mimes(Tail(v))

\* Mime::as_ref: the string of a Mime, kept as the pieces it is written from
Mime_as_ref(m) ==
    << m.type, "/", m.subtype >> \o (IF m.suffix.some THEN << "+", m.suffix.v >> ELSE <<>>)

\* HeaderMap::insert for one header name: values are the values the map holds
\* under the name; the value inserted takes the place of them
HeaderMap_insert(values, value) == << value >>

\* has_manifest, the loop over accept_types: each is inserted under ACCEPT
RECURSIVE insert_accept_types(_, _)
insert_accept_types(values, accept_types) ==
    IF accept_types = <<>> THEN values
    ELSE insert_accept_types(HeaderMap_insert(values, Mime_as_ref(accept_types[1])),
                             Tail(accept_types))

\* has_manifest, the match on mediatypes
has_manifest_accept_types(mediatypes) ==
    IF mediatypes.some THEN to_mimes(mediatypes.v) ELSE << to_mime("ManifestV2S2") >>

\* has_manifest, accept_headers: the values the map holds under ACCEPT
has_manifest_accept_headers(mediatypes) ==
    [accept |-> insert_accept_types(<<>>, has_manifest_accept_types(mediatypes))]

\* Client::has_manifest up to send()
HasManifest(a) ==
    StartManifestRead("has_manifest", "HEAD", manifest_url(a.name, a.reference, a.ns),
                      has_manifest_accept_headers(a.mediatypes), a)

\* Client::has_manifest from the response on
HasManifestAnswered(r) ==
    /\ pc = "has_manifest"
    /\ received' = << r >>
    /\ Return(has_manifest(r))
    /\ UNCHANGED sent
    /\ ManifestFrame

CallGetManifest == pc = "idle" /\ \E a \in ManifestArgs : GetManifestAndRef(a)

CallGetManifestref == pc = "idle" /\ \E a \in ManifestArgs : GetManifestref(a)

CallHasManifest == pc = "idle" /\ \E a \in HasManifestArgs : HasManifest(a)

\* the registry answers the manifest GET, or the transport fails
ManifestStep ==
    pc = "get_manifest_and_ref" /\ \E r \in ManifestGetResponses(args) : ManifestAnswered(r)

\* the registry answers the config blob GET, or the transport fails
ConfigBlobStep ==
    pc = "fetch_config_blob" /\ \E r \in ConfigBlobResponses : ConfigBlobAnswered(r)

ManifestrefStep ==
    pc = "get_manifestref" /\ \E r \in ManifestrefResponses(args) : GetManifestrefAnswered(r)

HasManifestStep ==
    pc = "has_manifest" /\ \E r \in HasManifestResponses(args) : HasManifestAnswered(r)

NextManifest ==
    \/ CallGetManifest
    \/ ManifestStep
    \/ ConfigBlobStep
    \/ CallGetManifestref
    \/ ManifestrefStep
    \/ CallHasManifest
    \/ HasManifestStep

SpecManifest == InitRead /\ [][NextManifest]_vars

(* ------------------------------------------------------------------ *)
(* The manifest operations of clients of every configuration          *)
(* ------------------------------------------------------------------ *)

\* Config::registry: the registry names tried
Registries == { N_registry, N_gcr, N_sub_gcr, N_not_gcr }

\* Config::accepted_types: not called, or called with one of two lists
AcceptedTypesChoices ==
    { NoneV,
      Some(<< << "ManifestList", Some(10) >>, << "ManifestV2S2", NoneV >> >>),
      Some(<< << "ManifestV2S2", Some(5) >>,
              << "ManifestV2S1Signed", Some(2) >>,
              << "ManifestList", Some(5) >> >>) }

Configs == [registry : Registries, accepted_types : AcceptedTypesChoices]

\* a Client just built from one of the configurations, without credentials
InitAccept ==
    /\ \E c \in Configs : Built(c)
    /\ credentials = NoneV
    /\ auth = NoneV
    /\ pc = "idle"
    /\ scopes = <<>>
    /\ auth_before = NoneV
    /\ sent = <<>>
    /\ probe = NoResponse
    /\ token_resp = NoResponse
    /\ result = [op |-> "none", ret |-> Ok(TRUE)]
    /\ negotiation = [probe |-> "unset", outcome |-> "unset", scheme |-> NoScheme]
    /\ args = NoArgs
    /\ received = <<>>
    /\ stream = NoStream

SpecAccept == InitAccept /\ [][NextManifest]_vars

(* ------------------------------------------------------------------ *)
(* The functions of media types and of manifests                      *)
(* ------------------------------------------------------------------ *)

\* the MIME types from_mime is tried on
MimeSubtypes == { Sub(v)[1] : v \in MediaTypes } \cup { "octet-stream" }
MimeSuffixes == { NoneV, Some("json"), Some("prettyjws"), Some("gzip") }
Mimes == { MimeOf(t, subt, suff) :
             t \in {"application", "text"}, subt \in MimeSubtypes, suff \in MimeSuffixes }

\* a call of a function that takes no Client and sends nothing
Applied(op, a, ret) ==
    /\ pc = "idle"
    /\ args' = a
    /\ result' = [op |-> op, ret |-> ret]
    /\ UNCHANGED << original, client_config, base_url, accepted_types, credentials, auth, pc, scopes,
                    auth_before, sent, probe, token_resp, negotiation, received, stream >>

\* no function has been called yet: each call below is made on its own
Fresh == result.op = "none"

\* a caller renders a variant
CallToMime ==
    /\ Fresh
    /\ \E v \in MediaTypes : Applied("to_mime", [variant |-> v], Ok(to_mime(v)))

\* a caller parses a MIME type
CallFromMime ==
    /\ Fresh
    /\ \E m \in Mimes : Applied("from_mime", [mime |-> m], from_mime(m))

\* a caller parses the MIME type to_mime has just rendered
CallFromMimeOfToMime ==
    /\ result.op = "to_mime"
    /\ Applied("from_mime", [variant |-> args.variant, mime |-> result.ret.v],
               from_mime(result.ret.v))

\* the longest layers array and manifests array of the manifests tried
MaxEntries == 2

ArchitectureNames == { "amd64", "arm64" }
LayerDigests == { "sha256:l1", "sha256:l2" }

S2Layers ==
    { [mediaType |-> "application/vnd.docker.image.rootfs.diff.tar.gzip",
       size |-> 3, digest |-> d] : d \in LayerDigests }

ManifestObjs ==
    { [mediaType |-> "application/vnd.docker.distribution.manifest.v2+json",
       size |-> 5, digest |-> d, platform |-> [architecture |-> arch, os |-> "linux"]] :
         d \in { "sha256:m1", "sha256:m2" }, arch \in ArchitectureNames }

\* the Manifest values the decoders can give
S1SignedValues ==
    { Manifest_S1Signed([schemaVersion |-> 1, architecture |-> arch, fsLayers |-> l]) :
        arch \in ArchitectureNames, l \in SeqsUpTo(LayerDigests, MaxEntries) }

S2Values ==
    { Manifest_S2([Doc_schema2 EXCEPT !.layers = l], [architecture |-> arch]) :
        arch \in ArchitectureNames, l \in SeqsUpTo(S2Layers, MaxEntries) }

MLValues ==
    { Manifest_ML([Doc_list EXCEPT !.manifests = l]) : l \in SeqsUpTo(ManifestObjs, MaxEntries) }

ManifestValues == S1SignedValues \cup S2Values \cup MLValues

\* the architecture argument of layers_digests
ArchitectureArgs == { NoneV, Some("amd64"), Some("arm64"), Some("s390x") }

\* a caller asks a manifest for its architectures
CallArchitectures ==
    /\ Fresh
    /\ \E m \in ManifestValues : Applied("architectures", [manifest |-> m], architectures(m))

\* a caller asks a manifest for its layers
CallLayersDigests ==
    /\ Fresh
    /\ \E m \in ManifestValues, a \in ArchitectureArgs :
          Applied("layers_digests", [manifest |-> m, architecture |-> a], layers_digests(m, a))

NextValues ==
    \/ CallToMime
    \/ CallFromMime
    \/ CallFromMimeOfToMime
    \/ CallArchitectures
    \/ CallLayersDigests

\* a Client of the default configuration
InitValues == InitAccept /\ client_config = DefaultConfig

SpecValues == InitValues /\ [][NextValues]_vars

(* ------------------------------------------------------------------ *)
(* One Client through authenticate calls and read operations          *)
(* ------------------------------------------------------------------ *)

\* the arguments and the answers of the read operations of this Client: few,
\* with a success, a failure status, a failing transport and a bad body each
ClientBlobArgs ==
    { [name |-> N_image, digest |-> d, ns |-> NoneV] :
        d \in { DigestString(W_sha256, HashHex(W_sha256, << 1 >>)), W_sha256 } }

ClientBlobResponses ==
    { BlobResponseOf(st, ch, f) :
        st \in {200, 404, 503}, ch \in { << << 1 >> >>, << << 2, 1 >> >> }, f \in BOOLEAN }
      \cup { IoError }

ClientManifestArgs == { [name |-> N_image, reference |-> N_tag, ns |-> NoneV] }

ClientManifestResponses(a) ==
    { ManifestResponseOf(200, manifest_ep(a.name, a.reference, a.ns),
                         Some(Serialized(v)), NoneV, b, f) :
        v \in {"ManifestV2S2", "ManifestList", "OciV1Manifest"},
        b \in { JsonBody(Doc_schema2), JsonBody(Doc_list), NotJson },
        f \in BOOLEAN }
      \cup { PlainManifestResponse(st, a) : st \in {404, 500} }
      \cup { IoError }

ClientHasManifestResponses(a) ==
    { ManifestResponseOf(st, manifest_ep(a.name, a.reference, a.ns), ct, NoneV, NotJson,
                         FALSE) :
        st \in {200, 404, 500}, ct \in { NoneV, Some(Serialized("ManifestV2S2")) } }
      \cup { IoError }

ClientHasBlob == pc = "idle" /\ \E a \in ClientBlobArgs : HasBlob(a)

ClientGetBlob == pc = "idle" /\ \E a \in ClientBlobArgs : GetBlob(a)

ClientGetBlobStep == pc = "get_blob" /\ \E r \in ClientBlobResponses : GetBlobAnswered(r)

ClientGetBlobStream == pc = "idle" /\ \E a \in ClientBlobArgs : GetBlobStream(a)

ClientGetBlobStreamStep ==
    pc = "get_blob_stream" /\ \E r \in ClientBlobResponses : GetBlobStreamAnswered(r)

ClientGetManifest == pc = "idle" /\ \E a \in ClientManifestArgs : GetManifestAndRef(a)

ClientManifestStep ==
    /\ pc = "get_manifest_and_ref"
    /\ \E r \in ClientManifestResponses(args) : ManifestAnswered(r)

ClientGetManifestref == pc = "idle" /\ \E a \in ClientManifestArgs : GetManifestref(a)

ClientHasManifest ==
    /\ pc = "idle"
    /\ \E a \in ClientManifestArgs : HasManifest([name |-> a.name, reference |-> a.reference,
                                                   ns |-> a.ns, mediatypes |-> NoneV])

ClientHasManifestStep ==
    pc = "has_manifest" /\ \E r \in ClientHasManifestResponses(args) : HasManifestAnswered(r)

\* the fields of the Client as it is now
ThisClient ==
    [auth |-> auth,
     base_url |-> base_url,
     credentials |-> credentials,
     accepted_types |-> accepted_types]

\* Client::clone: the caller keeps the Client it has and goes on with a clone
\* of it, which starts with the same fields
CloneClient ==
    /\ pc = "idle"
    /\ original' = ThisClient
    /\ UNCHANGED << client_config, base_url, accepted_types, credentials, auth, pc, scopes,
                    auth_before, sent, probe, token_resp, result, negotiation, args,
                    received, stream >>

NextClient ==
    \/ CloneClient
    \/ CallAuthenticate
    \/ ProbeStep
    \/ TokenStep
    \/ IsAuth
    \/ IsAuthStep
    \/ ClientHasBlob
    \/ HasBlobStep
    \/ ClientGetBlob
    \/ ClientGetBlobStep
    \/ ClientGetBlobStream
    \/ ClientGetBlobStreamStep
    \/ PollNext
    \/ PollNextAfterEnd
    \/ ClientGetManifest
    \/ ClientManifestStep
    \/ ConfigBlobStep
    \/ ClientGetManifestref
    \/ ManifestrefStep
    \/ ClientHasManifest
    \/ ClientHasManifestStep

SpecClient == Init /\ [][NextClient]_vars

(* ------------------------------------------------------------------ *)
(* Properties                                                         *)
(* ------------------------------------------------------------------ *)

\* the last operation is an authenticate call that has returned or unwound
AuthenticateDone == pc = "idle" /\ result.op = "authenticate"

\* C1: whenever authenticate returns an error, Client.auth is None afterwards,
\* also when the client held a Bearer or Basic value before the call
C1_ErrorLeavesAuthNone ==
    (AuthenticateDone /\ IsErr(result.ret)) => auth = NoneV

C1_Witness ==
    /\ AuthenticateDone
    /\ IsErrNamed(result.ret, "InvalidAuthToken")
    /\ auth_before.some
    /\ auth_before.v.kind = "Bearer"
    /\ auth = NoneV

\* C2: when the probe response carries no WWW-Authenticate header, authenticate
\* returns Ok and Client.auth is None whatever it was before, and every request
\* of a later operation carries no Authorization header
C2_AnonymousPassthrough ==
    /\ (AuthenticateDone /\ probe.io /\ ~probe.www.some)
          => (result.ret = Ok(TRUE) /\ auth = NoneV)
    /\ (negotiation.probe = "none" /\ result.op # "authenticate")
          => \A i \in 1..Len(sent) : ~sent[i].authorization.some

C2_Witness ==
    /\ negotiation = [probe |-> "none", outcome |-> "ok", scheme |-> NoScheme]
    /\ result.op = "is_auth"
    /\ credentials.some
    /\ Len(sent) = 1
    /\ ~sent[1].authorization.some

\* the kinds of pair that give the realm
RealmKinds == {"realm_url", "realm_rel"}

RealmCount(shape) ==
    Cardinality({ i \in 1..Len(shape.pairs) : shape.pairs[i].kind \in RealmKinds })

\* the server sent a well-formed Basic challenge
BasicChallenged ==
    /\ probe.io
    /\ probe.www.some
    /\ probe.shape.scheme = W_basic
    /\ RealmCount(probe.shape) = 1

\* C3: on a Basic challenge authenticate sets Client.auth to Basic with exactly
\* the stored user and password when credentials are stored, and fails with
\* NoCredentials, no request past the probe sent, when none are stored
C3_BasicChallenge ==
    (AuthenticateDone /\ BasicChallenged) =>
        /\ Len(sent) = 1
        /\ credentials.some =>
              /\ result.ret = Ok(TRUE)
              /\ auth = Some([kind |-> "Basic",
                              user |-> credentials.v.user,
                              password |-> Some(credentials.v.password)])
        /\ ~credentials.some =>
              /\ result.ret = Err("NoCredentials")
              /\ auth = NoneV

C3_Witness ==
    /\ AuthenticateDone
    /\ BasicChallenged
    /\ credentials.some
    /\ auth.some
    /\ auth.v.kind = "Basic"

\* the token endpoint answered 200 with a JSON body holding a token
TokenDelivered ==
    /\ token_resp.io
    /\ token_resp.status = 200
    /\ token_resp.body.some

\* C4: on a Bearer challenge, for every 200 token response whose token is
\* non-empty (one character included) and not "unauthenticated", authenticate
\* returns Ok and Client.auth is Bearer with exactly that token
C4_TokenAccepted ==
    (AuthenticateDone /\ TokenDelivered
        /\ token_resp.body.v.token \notin { <<>>, W_unauthenticated })
      => /\ result.ret = Ok(TRUE)
         /\ auth = Some([kind |-> "Bearer", token |-> token_resp.body.v.token])

\* C5: a 200 token response whose token is "" or "unauthenticated" makes
\* authenticate fail with InvalidAuthToken, and Client.auth never is Bearer
\* with such a token
C5_TokenRejected ==
    /\ (AuthenticateDone /\ TokenDelivered
          /\ token_resp.body.v.token \in { <<>>, W_unauthenticated })
        => /\ IsErrNamed(result.ret, "InvalidAuthToken")
           /\ auth = NoneV
    /\ ~(auth.some /\ auth.v.kind = "Bearer"
          /\ auth.v.token \in { <<>>, W_unauthenticated })

C5_Witness ==
    /\ AuthenticateDone
    /\ TokenDelivered
    /\ token_resp.body.v.token = W_unauthenticated
    /\ IsErrNamed(result.ret, "InvalidAuthToken")

\* the realm the server put in its challenge
ShapeRealm(shape) ==
    PairValue(shape.pairs[CHOOSE i \in 1..Len(shape.pairs) :
                              shape.pairs[i].kind \in RealmKinds].kind)

\* the service the server put in its challenge, if any
ShapeService(shape) ==
    IF \E i \in 1..Len(shape.pairs) : shape.pairs[i].kind = "service"
    THEN Some(V_service)
    ELSE NoneV

\* the token endpoint as the claim words it: one piece per scope, the first
\* introduced by "?" when there is no service, every other one by "&"
ExpectedEndpoint(realm, service, sc) ==
    realm
      \o (IF service.some THEN S_service_q \o service.v ELSE <<>>)
      \o Concat([i \in 1..Len(sc) |->
                    (IF i = 1 /\ ~service.some THEN S_qmark ELSE S_amp)
                        \o S_scope_eq \o sc[i]])

\* authenticate has sent its token request
TokenRequested == result.op = "authenticate" /\ Len(sent) = 2

\* C6: the token endpoint URL is the realm, then "?service=<service>" when the
\* challenge has a service, then one "scope=<s>" per caller scope in order,
\* the first introduced by "?" without a service and by "&" with one, the later
\* ones by "&"; without service and scopes it is the realm, and with a service
\* and no scopes it ends with the service
C6_TokenEndpoint ==
    TokenRequested =>
        /\ sent[2].url = ExpectedEndpoint(ShapeRealm(probe.shape),
                                          ShapeService(probe.shape), scopes)
        /\ (scopes = <<>> /\ ~ShapeService(probe.shape).some)
              => sent[2].url = ShapeRealm(probe.shape)
        /\ (scopes = <<>> /\ ShapeService(probe.shape).some)
              => sent[2].url = ShapeRealm(probe.shape) \o S_service_q \o V_service

C6_Witness ==
    /\ TokenRequested
    /\ ShapeService(probe.shape).some
    /\ Len(scopes) = 2
    /\ scopes[1] # scopes[2]

\* C7: a probe answered with a status that is neither 2xx nor 401 makes
\* authenticate fail with UnexpectedHttpStatus
C7_ProbeStatusChecked ==
    (result.op = "authenticate" /\ probe.io
        /\ probe.status \notin 200..299 /\ probe.status # 401)
      => (pc = "idle" /\ IsErrNamed(result.ret, "UnexpectedHttpStatus"))

RECURSIVE LowerOutsideQuotes(_, _, _)
\* h with every letter outside a quoted value in lower case
LowerOutsideQuotes(h, i, quoted) ==
    IF i > Len(h) THEN <<>>
    ELSE IF h[i] = "\"" THEN << h[i] >> \o LowerOutsideQuotes(h, i + 1, ~quoted)
    ELSE << IF quoted THEN h[i] ELSE ToLower(h[i]) >>
            \o LowerOutsideQuotes(h, i + 1, quoted)

\* the probe brought a header
Challenged == probe.io /\ probe.www.some

\* what the parser makes of the header the probe brought
Parsed == from_www_authentication_header(probe.www.v)

\* C8: the parse of a WWW-Authenticate value is the parse of the same value
\* with scheme word and keys in lower case, so every choice of letter case of
\* them gives one Challenge; the values come out verbatim
C8_CaseInsensitive ==
    Challenged =>
        /\ Parsed = from_www_authentication_header(
                        LowerOutsideQuotes(probe.www.v, 1, FALSE))
        /\ Parsed.ok =>
              /\ Parsed.v.scheme \in {W_bearer, W_basic}
              /\ Parsed.v.realm = V_url
              /\ (Parsed.v.scheme = W_bearer /\ Parsed.v.service.some)
                    => Parsed.v.service.v = V_service

C8_Witness ==
    /\ Challenged
    /\ probe.shape.scheme = W_bearer
    /\ probe.shape.style = "upper"
    /\ Len(probe.shape.pairs) = 2
    /\ probe.shape.pairs[1] = Pair("service", "cap")
    /\ probe.shape.pairs[2] = Pair("realm_url", "upper")
    /\ Parsed.ok
    /\ Parsed.v.service = Some(V_service)

\* the keys the struct behind the challenge's scheme does not know
IsUnknownPair(shape, pair) ==
    \/ pair.kind = "error"
    \/ shape.scheme = W_basic /\ pair.kind \in {"service", "scope"}

\* a challenge without the pairs whose keys are unknown
StripUnknown(shape) ==
    [shape EXCEPT !.pairs = SelectSeq(shape.pairs, LAMBDA pr : ~IsUnknownPair(shape, pr))]

\* C9: the parse fails, and authenticate with it leaving auth None, when the
\* value has no scheme word before its first pair, has no pair at all, names a
\* scheme other than bearer or basic, or is a bearer challenge without realm;
\* a challenge that parses without its unknown keys parses alike with them
C9_MalformedChallenge ==
    (Challenged /\ "raw" \notin DOMAIN probe.shape) =>
        /\ (\/ probe.shape.scheme = <<>>
            \/ probe.shape.pairs = <<>>
            \/ probe.shape.scheme \notin {W_bearer, W_basic}
            \/ probe.shape.scheme = W_bearer /\ RealmCount(probe.shape) = 0)
              => ~Parsed.ok
        /\ ~Parsed.ok =>
              /\ result.op = "authenticate"
              /\ pc = "idle"
              /\ IsErr(result.ret)
              /\ auth = NoneV
              /\ Len(sent) = 1
        /\ from_www_authentication_header(Render(StripUnknown(probe.shape))).ok
              => Parsed = from_www_authentication_header(
                              Render(StripUnknown(probe.shape)))

C9_Witness ==
    /\ Challenged
    /\ probe.shape.scheme = W_bearer
    /\ probe.shape.pairs = << Pair("service", "lower"), Pair("error", "lower") >>
    /\ ~Parsed.ok
    /\ AuthenticateDone
    /\ auth_before.some
    /\ auth = NoneV

\* the Authorization header the stored auth calls for
ExpectedAuthorization ==
    IF ~auth.some THEN NoneV
    ELSE IF auth.v.kind = "Bearer"
    THEN Some([scheme |-> "Bearer", token |-> auth.v.token])
    ELSE Some([scheme |-> "Basic",
               user |-> credentials.v.user,
               password |-> Some(credentials.v.password)])

IsAuthCalled == result.op = "is_auth"

\* the request is_auth sends: GET {base}/v2/ with the Authorization header of
\* the client's auth, if it has one
IsAuthRequest ==
    [method |-> "GET", url |-> V2Endpoint, authorization |-> ExpectedAuthorization]

\* C11: is_auth sends one GET /v2/ with the current auth attached and returns
\* true on 200, false on 401 with or without configured credentials, and
\* UnexpectedHttpStatus on every other status
C11_IsAuthStatus ==
    IsAuthCalled =>
        /\ sent = << IsAuthRequest >>
        /\ (pc = "idle" /\ received[1].io) =>
              /\ received[1].status = 200 => result.ret = Ok(TRUE)
              /\ received[1].status = 401 => result.ret = Ok(FALSE)
              /\ received[1].status \notin {200, 401}
                    => result.ret = ErrStatus(received[1].status)

C11_Witness ==
    /\ IsAuthCalled
    /\ pc = "idle"
    /\ credentials.some
    /\ auth.some
    /\ sent = << IsAuthRequest >>
    /\ received = << [io |-> TRUE, status |-> 401] >>
    /\ result.ret = Ok(FALSE)

\* the last operation is op, and it has returned after a response or a
\* transport failure
ReadDone(op) == pc = "idle" /\ result.op = op /\ Len(received) > 0

\* the algorithm and the hex a digest string declares
DeclaredAlgorithm(digest) == SubSeq(digest, 1, IndexOf(digest, ":", 1) - 1)
DeclaredHex(digest) == SubSeq(digest, IndexOf(digest, ":", 1) + 1, Len(digest))

\* the digest string names an algorithm and a hex of its output size
WellFormedDigest(digest) ==
    /\ IndexOf(digest, ":", 1) > 0
    /\ DeclaredAlgorithm(digest) \in {W_sha256, W_sha512}
    /\ Len(DeclaredHex(digest)) = HexLen(DeclaredAlgorithm(digest))

\* the hash of bytes is the hash the digest string declares
HashMatches(digest, bytes) ==
    LowerStr(DeclaredHex(digest)) = HashHex(DeclaredAlgorithm(digest), bytes)

\* the body of a response, whole
BodyOf(r) == Flatten(r.chunks)

\* get_blob has read the whole body of its response
GetBlobBodyRead ==
    /\ ReadDone("get_blob")
    /\ received[1].io
    /\ ~received[1].fails
    /\ ~is_client_error(received[1].status)
    /\ ~is_server_error(received[1].status)
    /\ WellFormedDigest(args.digest)

\* C12: get_blob returns the bytes of the body exactly when the hash of the
\* whole body is the hex of the requested digest, and fails with
\* DigestMismatch, no bytes returned, on a mismatch
C12_GetBlobVerified ==
    /\ GetBlobBodyRead =>
          IF HashMatches(args.digest, BodyOf(received[1]))
          THEN result.ret = Ok(BodyOf(received[1]))
          ELSE /\ IsErrNamed(result.ret, "DigestMismatch")
               /\ "v" \notin DOMAIN result.ret
    /\ (ReadDone("get_blob") /\ result.ret.ok) =>
          /\ result.ret.v = BodyOf(received[1])
          /\ HashMatches(args.digest, result.ret.v)

C12_Witness ==
    /\ GetBlobBodyRead
    /\ Len(received[1].chunks) = 2
    /\ args.digest = DigestString(W_sha256, UpperStr(HashHex(W_sha256, << 2, 1, 1 >>)))
    /\ result.ret = Ok(<< 2, 1, 1 >>)

\* the last operation is a get_blob or get_blob_stream call that has returned
\* after a response
BlobGetDone ==
    /\ ReadDone("get_blob") \/ ReadDone("get_blob_stream")
    /\ received[1].io

\* the call went on to the body of its response
BodyTaken ==
    \/ stream.open
    \/ result.ret.ok
    \/ IsErrNamed(result.ret, "DigestMismatch")

\* C13: get_blob and get_blob_stream fail with Client{status} on 4xx, with
\* Server{status} on 5xx and with UnexpectedHttpStatus on every other status
\* that is not 2xx; a body is read for a 2xx response only
C13_BlobStatus ==
    BlobGetDone =>
        /\ is_client_error(received[1].status)
              => result.ret = ErrClient(received[1].status)
        /\ is_server_error(received[1].status)
              => result.ret = ErrServer(received[1].status)
        /\ (/\ ~is_success(received[1].status)
            /\ ~is_client_error(received[1].status)
            /\ ~is_server_error(received[1].status))
              => result.ret = ErrStatus(received[1].status)
        /\ BodyTaken => is_success(received[1].status)

\* the chunks among the items a stream has yielded
RECURSIVE ChunksOf(_)
ChunksOf(items) ==
    IF items = <<>> THEN <<>>
    ELSE IF Head(items).ok THEN << Head(items).v >> \o ChunksOf(Tail(items))
    ELSE ChunksOf(Tail(items))

\* the DigestMismatch items among the items a stream has yielded
MismatchesOf(items) == SelectSeq(items, LAMBDA it : IsErrNamed(it, "DigestMismatch"))

\* the items of a stream that yields the chunks and nothing else
OkItems(chunks) == [i \in 1..Len(chunks) |-> Ok(chunks[i])]

\* C14: a BlobStream yields the transport's chunks unchanged and in order, each
\* one fed to the running digest before it is yielded; drained to its end it
\* has then yielded exactly one DigestMismatch item when the final hash is not
\* the declared one (also for an empty body), and no error item when it is
C14_StreamVerified ==
    stream.open =>
        /\ ChunksOf(stream.yielded) \o stream.transport = received[1].chunks
        /\ stream.digest.some =>
              stream.digest.v.running =
                  HashUpdate(stream.digest.v.algorithm,
                             HashInit(stream.digest.v.algorithm),
                             Flatten(ChunksOf(stream.yielded)))
        /\ Len(MismatchesOf(stream.yielded)) <= 1
        /\ ~stream.ended => \A i \in 1..Len(stream.yielded) : Len(stream.yielded) > i
                                => ~IsErrNamed(stream.yielded[i], "DigestMismatch")
        /\ (stream.ended /\ ~received[1].fails) =>
              IF HashMatches(args.digest, BodyOf(received[1]))
              THEN stream.yielded = OkItems(received[1].chunks)
              ELSE /\ Len(stream.yielded) = Len(received[1].chunks) + 1
                   /\ SubSeq(stream.yielded, 1, Len(received[1].chunks))
                         = OkItems(received[1].chunks)
                   /\ IsErrNamed(stream.yielded[Len(stream.yielded)], "DigestMismatch")

C14_Witness ==
    /\ stream.open
    /\ stream.ended
    /\ received[1].chunks = <<>>
    /\ ~received[1].fails
    /\ Len(stream.yielded) = 1
    /\ IsErrNamed(stream.yielded[1], "DigestMismatch")

\* C15: has_blob returns true exactly when the status of the HEAD response is
\* 200 and false for every other status, 404 included; it fails only when no
\* response arrives
C15_HasBlob ==
    ReadDone("has_blob") =>
        /\ received[1].io => result.ret = Ok(received[1].status = 200)
        /\ IsErr(result.ret) => ~received[1].io

C15_Witness ==
    /\ ReadDone("has_blob")
    /\ received[1].io
    /\ received[1].status = 404
    /\ result.ret = Ok(FALSE)

\* the effective media type of a manifest response, as the claims word it:
\* the signed schema 1 type on a pulp path when Content-Type is missing or is
\* application/x-troff-man, MediaTypeSniff when it is missing elsewhere, and
\* else the variant whose string the Content-Type value is, or UnknownMimeType
EffectiveMediaType(r) ==
    IF /\ StartsWith(url_path(r.url), S_pulp)
       /\ r.content_type \in { NoneV, Some("application/x-troff-man") }
    THEN Ok("ManifestV2S1Signed")
    ELSE IF ~r.content_type.some THEN Err("MediaTypeSniff")
    ELSE IF \E v \in MediaTypes : Serialized(v) = r.content_type.v
    THEN Ok(CHOOSE v \in MediaTypes : Serialized(v) = r.content_type.v)
    ELSE Err("UnknownMimeType")

\* the Docker-Content-Digest header of the response is absent or is text
DigestHeaderReadable(r) ==
    r.content_digest.some => r.content_digest.v # OpaqueHeader

\* get_manifest_and_ref has got its manifest response
ManifestReceived == result.op = "get_manifest_and_ref" /\ Len(received) > 0

\* the manifest response is a 200 whose headers are read and whose body arrives
ManifestDelivered ==
    /\ ManifestReceived
    /\ received[1].io
    /\ received[1].status = 200
    /\ DigestHeaderReadable(received[1])
    /\ EffectiveMediaType(received[1]).ok
    /\ ~received[1].fails

\* the manifest response is delivered with effective media type mtype
DeliveredAs(mtype) == ManifestDelivered /\ EffectiveMediaType(received[1]).v = mtype

\* the follow-up request for the config blob was answered 2xx with a ConfigBlob
ConfigBlobDelivered ==
    /\ Len(received) = 2
    /\ received[2].io
    /\ is_success(received[2].status)
    /\ received[2].body = JsonBody(Doc_config_blob)

\* C16: get_manifest fails with UnexpectedHttpStatus on every status but 200;
\* on 200 it returns S1Signed for ManifestV2S1Signed, S2 for ManifestV2S2 and
\* ML for ManifestList, media_type() of what it returns being the effective
\* media type, and fails with UnsupportedMediaType for every other media type
C16_ManifestVariant ==
    ReadDone("get_manifest_and_ref") =>
        /\ (received[1].io /\ received[1].status # 200)
              => result.ret = ErrStatus(received[1].status)
        /\ result.ret.ok =>
              /\ ManifestDelivered
              /\ media_type(result.ret.v.manifest) = EffectiveMediaType(received[1]).v
        /\ (DeliveredAs("ManifestV2S1Signed") /\ received[1].body = JsonBody(Doc_schema1))
              => (result.ret.ok /\ result.ret.v.manifest.variant = "S1Signed")
        /\ (DeliveredAs("ManifestList") /\ received[1].body = JsonBody(Doc_list))
              => (result.ret.ok /\ result.ret.v.manifest.variant = "ML")
        /\ (DeliveredAs("ManifestV2S2") /\ received[1].body = JsonBody(Doc_schema2)
              /\ ConfigBlobDelivered)
              => (result.ret.ok /\ result.ret.v.manifest.variant = "S2")
        /\ (ManifestDelivered /\ EffectiveMediaType(received[1]).v
              \notin {"ManifestV2S1Signed", "ManifestV2S2", "ManifestList"})
              => result.ret = ErrUnsupported(EffectiveMediaType(received[1]).v)

C16_Witness ==
    /\ ReadDone("get_manifest_and_ref")
    /\ DeliveredAs("ManifestV2S1Signed")
    /\ received[1].content_type = Some("application/x-troff-man")
    /\ result.ret.ok
    /\ result.ret.v.manifest = Manifest_S1Signed(Doc_schema1)

\* the follow-up request get_manifest sends for the config blob of a manifest
ConfigBlobRequest ==
    [method |-> "GET",
     url |-> base_url \o S_v2 \o args.name \o S_blobs \o D_config,
     authorization |-> ExpectedAuthorization]

\* C17: get_manifest sends the follow-up GET /v2/{name}/blobs/{config.digest}
\* exactly when the manifest response is a 200 of media type ManifestV2S2
\* (whose body names a config digest), and after that response; a follow-up
\* answered with a status that is not 2xx, or with a body that is no
\* ConfigBlob, makes get_manifest fail; S1Signed and List responses have no
\* follow-up
C17_ConfigBlobFollowUp ==
    result.op = "get_manifest_and_ref" =>
        /\ Len(sent) <= 2
        /\ Len(received) = 0 => Len(sent) <= 1
        /\ Len(received) > 0 =>
              (Len(sent) = 2 <=>
                   (DeliveredAs("ManifestV2S2") /\ decode_schema2(received[1].body).ok))
        /\ Len(sent) = 2 => sent[2] = ConfigBlobRequest
        /\ (pc = "idle" /\ Len(received) = 2 /\ ~ConfigBlobDelivered) =>
              /\ IsErr(result.ret)
              /\ "v" \notin DOMAIN result.ret
        /\ (pc = "idle" /\ Len(received) = 2 /\ received[2].io
              /\ ~is_success(received[2].status))
              => result.ret = ErrStatus(received[2].status)
        /\ (DeliveredAs("ManifestV2S1Signed") \/ DeliveredAs("ManifestList"))
              => Len(sent) = 1

C17_Witness ==
    /\ ReadDone("get_manifest_and_ref")
    /\ DeliveredAs("ManifestV2S2")
    /\ Len(sent) = 2
    /\ sent[2] = ConfigBlobRequest
    /\ Len(received) = 2
    /\ received[2].io
    /\ received[2].status = 404
    /\ result.ret = ErrStatus(404)

\* a manifest operation has a response whose media type it evaluates
MediaTypeEvaluated ==
    /\ result.op \in {"get_manifest_and_ref", "has_manifest"}
    /\ Len(received) > 0
    /\ received[1].io

\* C18: the effective media type of a manifest response is ManifestV2S1Signed
\* when the path of the response URL begins with /pulp/docker/v2 and
\* Content-Type is missing or is application/x-troff-man, the error
\* MediaTypeSniff when Content-Type is missing on another path, and else the
\* parse of the Content-Type value, UnknownMimeType outside the closed set
C18_EffectiveMediaType ==
    MediaTypeEvaluated =>
        /\ evaluate_media_type(received[1].content_type, received[1].url)
              = EffectiveMediaType(received[1])
        /\ (received[1].status = 200 /\ DigestHeaderReadable(received[1])
              /\ ~EffectiveMediaType(received[1]).ok /\ pc = "idle")
              => result.ret = EffectiveMediaType(received[1])

C18_Witness ==
    /\ MediaTypeEvaluated
    /\ result.op = "has_manifest"
    /\ received[1].status = 200
    /\ StartsWith(url_path(received[1].url), S_pulp)
    /\ received[1].content_type = NoneV
    /\ result.ret = Ok(Some("ManifestV2S1Signed"))

\* C19: has_manifest returns the effective media type on 200, 301, 302 and
\* 307, returns absent without error on 404, and fails with
\* UnexpectedHttpStatus on every other status
C19_HasManifest ==
    (ReadDone("has_manifest") /\ received[1].io) =>
        /\ received[1].status \in {200, 301, 302, 307} =>
              IF EffectiveMediaType(received[1]).ok
              THEN result.ret = Ok(Some(EffectiveMediaType(received[1]).v))
              ELSE result.ret = EffectiveMediaType(received[1])
        /\ received[1].status = 404 => result.ret = Ok(NoneV)
        /\ received[1].status \notin {200, 301, 302, 307, 404}
              => result.ret = ErrStatus(received[1].status)

C19_Witness ==
    /\ ReadDone("has_manifest")
    /\ received[1].io
    /\ received[1].status = 307
    /\ result.ret = Ok(Some("ManifestList"))

\* C20: get_manifestref returns the Docker-Content-Digest value of a 200
\* response, returns absent without error when a 200 response has no such
\* header, and fails with UnexpectedHttpStatus on every other status;
\* get_manifest does not fail for want of the header either
C20_Manifestref ==
    /\ (ReadDone("get_manifestref") /\ received[1].io) =>
          /\ (received[1].status = 200 /\ received[1].content_digest.some
                /\ DigestHeaderReadable(received[1]))
                => result.ret = Ok(Some(received[1].content_digest.v))
          /\ (received[1].status = 200 /\ ~received[1].content_digest.some)
                => result.ret = Ok(NoneV)
          /\ received[1].status # 200 => result.ret = ErrStatus(received[1].status)
    /\ (ReadDone("get_manifest_and_ref") /\ ManifestDelivered
          /\ ~received[1].content_digest.some) =>
          /\ ~IsErrNamed(result.ret, "ToStr")
          /\ result.ret.ok => result.ret.v.content_digest = NoneV
          /\ (DeliveredAs("ManifestList") /\ received[1].body = JsonBody(Doc_list))
                => result.ret = Ok([manifest |-> Manifest_ML(Doc_list),
                                    content_digest |-> NoneV])
          /\ (DeliveredAs("ManifestV2S2") /\ received[1].body = JsonBody(Doc_schema2)
                /\ ConfigBlobDelivered)
                => result.ret.ok

C20_Witness ==
    /\ ReadDone("get_manifestref")
    /\ received[1].io
    /\ received[1].status = 200
    /\ ~received[1].content_digest.some
    /\ result.ret = Ok(NoneV)

\* the accepted media types as configured: the list given to the builder, or
\* the default list
ConfiguredTypes ==
    IF client_config.accepted_types.some
    THEN client_config.accepted_types.v
    ELSE << << "ManifestV2S2", Some(5) >>,
            << "ManifestV2S1Signed", Some(4) >>,
            << "ManifestList", Some(5) >> >>

\* the client is configured with registry gcr.io or a host ending in .gcr.io
GcrHost ==
    \/ client_config.registry = << "g","c","r",".","i","o" >>
    \/ EndsWith(client_config.registry, << ".","g","c","r",".","i","o" >>)

\* entry i of the Accept header as claimed
ClaimedEntry(i) ==
    IF GcrHost \/ ~ConfiguredTypes[i][2].some
    THEN << Serialized(ConfiguredTypes[i][1]) >>
    ELSE << Serialized(ConfiguredTypes[i][1]), "; q=", fmt_f64(ConfiguredTypes[i][2].v) >>

\* the first n entries, comma-joined
RECURSIVE ClaimedAccept(_)
ClaimedAccept(n) ==
    IF n = 0 THEN <<>>
    ELSE IF n = 1 THEN ClaimedEntry(1)
    ELSE ClaimedAccept(n - 1) \o << "," >> \o ClaimedEntry(n)

\* the Accept header of the default list on a host that is not gcr
DefaultAccept ==
    << "application/vnd.docker.distribution.manifest.v2+json", "; q=", "0.5", ",",
       "application/vnd.docker.distribution.manifest.v1+prettyjws", "; q=", "0.4", ",",
       "application/vnd.docker.distribution.manifest.list.v2+json", "; q=", "0.5" >>

\* get_manifest has sent its manifest GET
ManifestGetSent == result.op = "get_manifest_and_ref" /\ Len(sent) >= 1

\* C21: the Accept header of a manifest GET lists the accepted media types in
\* their configured order, comma-joined; on gcr.io and on hosts ending in
\* .gcr.io no entry has a q parameter, on every other host an entry has
\* "; q=w" exactly when it has a configured weight w; the default list is
\* V2S2 q=0.5, V2S1Signed q=0.4, ManifestList q=0.5
C21_AcceptHeader ==
    ManifestGetSent =>
        /\ sent[1].method = "GET"
        /\ sent[1].accept = ClaimedAccept(Len(ConfiguredTypes))
        /\ GcrHost => \A i \in 1..Len(sent[1].accept) : sent[1].accept[i] # "; q="
        /\ (~GcrHost /\ ~client_config.accepted_types.some) => sent[1].accept = DefaultAccept

C21_Witness ==
    /\ ManifestGetSent
    /\ client_config.registry = N_sub_gcr
    /\ client_config.accepted_types.some
    /\ Len(client_config.accepted_types.v) = 2
    /\ client_config.accepted_types.v[1][2] = Some(10)
    /\ sent[1].accept = << "application/vnd.docker.distribution.manifest.list.v2+json", ",",
                           "application/vnd.docker.distribution.manifest.v2+json" >>

\* from_mime has parsed what to_mime rendered from a variant
RoundTripDone == result.op = "from_mime" /\ "variant" \in DOMAIN args

\* C22: for every variant v of the closed set, the three OCI variants and the
\* image-layer variant included, from_mime(to_mime(v)) = v
C22_MimeRoundTrip == RoundTripDone => result.ret = Ok(args.variant)

\* the number of entries of a List manifest
ListEntries(m) == Len(m.m.manifests)

\* C23: architectures() yields at least one element for every Manifest value:
\* exactly one for S1Signed and S2, one per entry for a List, a List with an
\* empty manifests array included
C23_Architectures ==
    result.op = "architectures" =>
        /\ result.ret.ok
        /\ Len(result.ret.v) >= 1
        /\ args.manifest.variant \in {"S1Signed", "S2"} => Len(result.ret.v) = 1
        /\ args.manifest.variant = "ML" => Len(result.ret.v) = ListEntries(args.manifest)

\* layers_digests was called with an architecture on an S1Signed or S2 manifest
LayersOfArchitecture ==
    /\ result.op = "layers_digests"
    /\ args.manifest.variant \in {"S1Signed", "S2"}
    /\ args.architecture.some

\* the architecture an S1Signed or S2 manifest declares
DeclaredArchitecture(m) ==
    IF m.variant = "S1Signed" THEN m.m.architecture ELSE m.config_blob.architecture

\* C24: on an S1Signed or S2 manifest, layers_digests(arch) with arch given
\* returns what layers_digests(None) returns when the declared architecture
\* is arch and fails with ArchitectureMismatch when it differs (no S1Signed
\* or S2 value is without architecture); for S2 the sequence is the layers
\* array in its stored order
C24_LayersOfArchitecture ==
    /\ LayersOfArchitecture =>
          IF DeclaredArchitecture(args.manifest) = args.architecture.v
          THEN /\ result.ret.ok
               /\ result.ret = layers_digests(args.manifest, NoneV)
          ELSE result.ret = Err("ArchitectureMismatch")
    /\ (result.op = "layers_digests" /\ args.manifest.variant = "S2" /\ result.ret.ok) =>
          /\ Len(result.ret.v) = Len(args.manifest.manifest_spec.layers)
          /\ \A i \in 1..Len(result.ret.v) :
                result.ret.v[i] = args.manifest.manifest_spec.layers[i].digest

C24_Witness ==
    /\ LayersOfArchitecture
    /\ args.manifest.variant = "S2"
    /\ args.architecture = Some("arm64")
    /\ result.ret = Ok(<< "sha256:l2", "sha256:l1" >>)

\* C25: on a List manifest layers_digests(arch) never fails and returns, for
\* every arch, the digest of every entry in entry order; position i of it and
\* of architectures() are those of entry i
C25_ListDigests ==
    (result.op = "layers_digests" /\ args.manifest.variant = "ML") =>
        /\ result.ret.ok
        /\ Len(result.ret.v) = ListEntries(args.manifest)
        /\ architectures(args.manifest).ok
        /\ Len(architectures(args.manifest).v) = ListEntries(args.manifest)
        /\ \A i \in 1..ListEntries(args.manifest) :
              /\ result.ret.v[i] = args.manifest.m.manifests[i].digest
              /\ architectures(args.manifest).v[i]
                    = args.manifest.m.manifests[i].platform.architecture

C25_Witness ==
    /\ result.op = "layers_digests"
    /\ args.manifest.variant = "ML"
    /\ args.architecture = Some("s390x")
    /\ result.ret = Ok(<< "sha256:m2", "sha256:m1" >>)
    /\ architectures(args.manifest) = Ok(<< "amd64", "arm64" >>)

\* the positions of verify among the calls made on the digest of the stream
VerifyCalls == { i \in 1..Len(stream.calls) : stream.calls[i] = "verify" }

\* C26: in a blob stream, whatever the polls and whatever the transport does
\* after its end (it reports the end again, or delivers a late chunk or
\* error), verify is called on the digest at most once, update is never
\* called after verify, and once the end of the transport has brought the
\* terminal outcome no further item is emitted
C26_StreamSingleUse ==
    stream.open =>
        /\ Cardinality(VerifyCalls) <= 1
        /\ \A i \in VerifyCalls : i = Len(stream.calls)
        /\ stream.terminal.some => Len(stream.yielded) = stream.terminal.v
        /\ stream.eos => stream.terminal.some

\* the stream ended in a mismatch and was polled again after it
C26_Witness ==
    /\ stream.open
    /\ stream.eos
    /\ stream.ended
    /\ stream.calls = << "update", "update", "verify" >>
    /\ Len(stream.yielded) = 3
    /\ IsErrNamed(stream.yielded[3], "DigestMismatch")

\* the stream get_blob_stream returned has been drained to its end
StreamDrained == result.op = "get_blob_stream" /\ stream.open /\ stream.ended

\* the error items among the items a stream has yielded
ErrorItems(items) == SelectSeq(items, LAMBDA it : ~it.ok)

\* the responses that deliver the body of r, however it is split
SameBody(r) == { r2 \in SplitResponses : BodyOf(r2) = BodyOf(r) }

\* what get_blob returns for the digest of the running call when answered r
GetBlobOf(r) == get_blob(get_blob_response(r, args.digest))

\* C27: for the same body, the same declared digest and every split of the
\* body into chunks, get_blob succeeds exactly when the drained stream of
\* get_blob_stream has yielded no error item, and the chunks the stream
\* yielded then concatenate to the bytes get_blob returns
C27_BufferedAsStreamed ==
    StreamDrained =>
        \A r2 \in SameBody(received[1]) :
            /\ GetBlobOf(r2).ok <=> ErrorItems(stream.yielded) = <<>>
            /\ GetBlobOf(r2).ok => GetBlobOf(r2).v = Flatten(ChunksOf(stream.yielded))

C27_Witness ==
    /\ StreamDrained
    /\ Len(received[1].chunks) = 3
    /\ Cardinality(SameBody(received[1])) = 4
    /\ ErrorItems(stream.yielded) = <<>>
    /\ \E r2 \in SameBody(received[1]) :
          Len(r2.chunks) = 1 /\ GetBlobOf(r2) = Ok(<< 2, 1, 1 >>)



\* the operations that send one request
SingleRequestOps ==
    {"is_auth", "has_blob", "get_blob", "get_blob_stream", "has_manifest", "get_manifestref"}

\* the request at position i of the running operation goes to a URL no
\* earlier request of the operation went to
NotSentBefore(i) == \A j \in 1..(i - 1) : sent[j].url # sent[i].url

\* the status is one the operation takes for a failure
StatusFails(op, status) ==
    CASE op = "is_auth" -> status \notin {200, 401}
      [] op = "has_blob" -> FALSE
      [] op \in {"get_blob", "get_blob_stream"} -> status >= 400
      [] op = "get_manifestref" -> status # 200
      [] op = "has_manifest" -> status \notin {200, 301, 302, 307, 404}
      [] op = "get_manifest_and_ref" -> status # 200
      [] op = "fetch_config_blob" -> ~is_success(status)
      [] op = "token" -> status # 200

\* response r is a failed response to a request of op: the transport failed,
\* or the status is one op takes for a failure
Failed(op, r) == ~r.io \/ StatusFails(op, r.status)

\* the running operation has returned an error
ReturnedError == pc = "idle" /\ IsErr(result.ret)

CredentialsAuthorization ==
    IF credentials.some
    THEN Some([scheme |-> "Basic",
               user |-> credentials.v.user,
               password |-> Some(credentials.v.password)])
    ELSE NoneV

\* the probe of the running authenticate call brought a Bearer challenge that
\* parses and whose token endpoint is a URL
BearerChallenged ==
    /\ result.op = "authenticate"
    /\ Challenged
    /\ Parsed.ok
    /\ Parsed.v.scheme = W_bearer
    /\ try_from_header_content_request(scopes, credentials, Parsed.v).ok

\* C29: the token request of authenticate carries Basic authorization with the
\* stored user and password when credentials are stored and no Authorization
\* header when none are, never a Bearer token; Client.auth is None while the
\* request is in flight; a Bearer challenge met without credentials leads to
\* the token request, not to NoCredentials
C29_TokenRequestAuth ==
    /\ TokenRequested =>
          /\ sent[2].authorization = CredentialsAuthorization
          /\ sent[2].authorization.some => sent[2].authorization.v.scheme # "Bearer"
    /\ pc = "token" => auth = NoneV
    /\ (BearerChallenged /\ ~credentials.some) =>
          /\ Len(sent) = 2
          /\ ~IsErrNamed(result.ret, "NoCredentials")

\* a Client without credentials that held a token before the call has its
\* token request in flight, without Authorization header
C29_Witness ==
    /\ BearerChallenged
    /\ ~credentials.some
    /\ auth_before.some
    /\ auth_before.v.kind = "Bearer"
    /\ pc = "token"
    /\ auth = NoneV
    /\ Len(sent) = 2
    /\ sent[2].authorization = NoneV


\* the probe: GET {base}/v2/ without Authorization header
ProbeRequest == [method |-> "GET", url |-> V2Endpoint, authorization |-> NoneV]

\* what the token response of the running call makes of itself
TokenOutcome == try_from_header_content_response(token_resp)

\* what authenticate returns on a Bearer challenge, from the scopes, the
\* credentials and the two responses
BearerReturn ==
    IF ~try_from_header_content_request(scopes, credentials, Parsed.v).ok
    THEN Err(try_from_header_content_request(scopes, credentials, Parsed.v).err)
    ELSE IF TokenOutcome.ok THEN Ok(TRUE) ELSE TokenOutcome

\* what authenticate returns on a header that parses
ChallengeReturn ==
    IF Parsed.v.scheme = W_basic
    THEN IF credentials.some THEN Ok(TRUE) ELSE Err("NoCredentials")
    ELSE BearerReturn

\* what authenticate returns, from the scopes, the credentials and the
\* responses of the call alone
NegotiatedReturn ==
    IF ~probe.io THEN Err("Reqwest")
    ELSE IF ~probe.www.some THEN Ok(TRUE)
    ELSE IF ~Parsed.ok THEN Err(Parsed.err)
    ELSE ChallengeReturn

\* the auth authenticate leaves, from the credentials and the responses of
\* the call alone
NegotiatedAuth ==
    IF ~NegotiatedReturn.ok \/ ~probe.www.some THEN NoneV
    ELSE IF Parsed.v.scheme = W_basic
    THEN Some(BasicOf(credentials.v.user, Some(credentials.v.password)))
    ELSE Some(BearerOf(TokenOutcome.v))

\* C30: the probe of authenticate is GET {base}/v2/ without Authorization
\* header, also on a Client that holds Bearer or Basic auth of an earlier call:
\* Client.auth is None while the probe is in flight; what the call returns and
\* the auth it leaves follow from the scopes, the credentials and the
\* responses of this call, not from the auth the Client held before it
C30_ProbeUnauthenticated ==
    /\ (result.op = "authenticate" /\ Len(sent) >= 1) => sent[1] = ProbeRequest
    /\ pc = "probe" => auth = NoneV
    /\ AuthenticateDone =>
          /\ result.ret = NegotiatedReturn
          /\ auth = NegotiatedAuth

\* a Client that held a token of an earlier call is anonymous after a second
\* call whose probe went out without Authorization header and came back
\* without challenge
C30_Witness ==
    /\ AuthenticateDone
    /\ auth_before.some
    /\ auth_before.v.kind = "Bearer"
    /\ sent = << ProbeRequest >>
    /\ probe.io
    /\ ~probe.www.some
    /\ result.ret = Ok(TRUE)
    /\ auth = NoneV


\* the token endpoint answered the token request of the call that has ended,
\* with a status other than 200
TokenStatusNot200 ==
    /\ AuthenticateDone
    /\ TokenRequested
    /\ token_resp.io
    /\ token_resp.status # 200

\* C31: on a Bearer challenge authenticate fails with UnexpectedHttpStatus of
\* the status the token endpoint answered whenever that status is not 200,
\* another status of the 2xx class included; the body is not read as a token:
\* whatever token it holds, none is stored, none is rejected as invalid and
\* none is masked
C31_TokenStatus ==
    TokenStatusNot200 =>
        /\ result.ret = ErrStatus(token_resp.status)
        /\ auth = NoneV
        /\ negotiation.outcome = "err"

\* the token endpoint answered with another 2xx status and a token in the body
C31_Witness ==
    /\ TokenStatusNot200
    /\ token_resp.status \in 201..299
    /\ token_resp.body = Some([token |-> T_two])
    /\ IsErrNamed(result.ret, "UnexpectedHttpStatus")
    /\ auth = NoneV


\* has_manifest has sent its HEAD request
HasManifestSent == result.op = "has_manifest" /\ Len(sent) = 1

\* the strings of the override list that name a variant of MediaTypes
Recognised(list) == SelectSeq(list, LAMBDA x : from_str(x).ok)

\* the elements of a sequence
ElementsOf(q) == { q[i] : i \in 1..Len(q) }

\* the string of a variant as an Accept value, in the pieces of its Sub
AcceptValueOf(variant) == << "application", "/" >> \o Sub(variant)

\* the media types the HEAD request of has_manifest is to name
ClaimedNames(mediatypes) ==
    IF mediatypes.some
    THEN { AcceptValueOf(from_str(x).v) : x \in ElementsOf(Recognised(mediatypes.v)) }
    ELSE { AcceptValueOf("ManifestV2S2") }

\* C32: the Accept header of the HEAD request of has_manifest names
\* ManifestV2S2 alone when no override list is given, and every string of the
\* override list that names a variant when one is given
C32_HasManifestAccept ==
    HasManifestSent => ElementsOf(sent[1].accept) = ClaimedNames(args.mediatypes)

\* without override list, and with an override list in which fewer than two
\* strings name a variant, the Accept header names what the list recognises
C32_UpToOneType ==
    (HasManifestSent
        /\ (args.mediatypes.some => Len(Recognised(args.mediatypes.v)) < 2))
      => ElementsOf(sent[1].accept) = ClaimedNames(args.mediatypes)


\* the step is one of an authenticate call on this Client
AuthenticateStep == result'.op = "authenticate" /\ (pc # "idle" \/ pc' # "idle" \/ sent' # sent)

\* the step is the send() of the token request, built from a temporary clone
\* of this Client
TokenRequestStep == pc = "probe" /\ pc' = "token"

\* C33: Client.auth changes only in a step of authenticate on this very
\* Client: no step of is_auth, has_blob, get_blob, get_blob_stream,
\* get_manifest, has_manifest or get_manifestref changes it, whatever the
\* response; the temporary clone the token request is built from leaves auth
\* as it is; no step changes base_url, credentials or accepted_types; and
\* what is done with a clone leaves the Client it was cloned from as it was
C33_AuthSlotFrame ==
    [][/\ auth' # auth => AuthenticateStep
       /\ result'.op # "authenticate" => auth' = auth
       /\ TokenRequestStep => auth' = auth
       /\ UNCHANGED << base_url, credentials, accepted_types >>
       /\ original' # original => (pc = "idle" /\ original' = ThisClient /\ UNCHANGED auth)
      ]_vars

\* a clone has authenticated with the credentials in a temporary clone's
\* token request, and holds a token; the Client it was cloned from has none
C33_Witness ==
    /\ original # NoClient
    /\ original.auth = NoneV
    /\ AuthenticateDone
    /\ Len(sent) = 2
    /\ sent[2].authorization.some
    /\ auth.some
    /\ auth.v.kind = "Bearer"


\* the digest the manifest of the running get_manifest call names for its
\* config blob
ConfigDigest == decode_schema2(received[1].body).v.config.digest

\* what checking the body of the config blob response against the digest it
\* was requested by comes to
ConfigBlobVerdict ==
    verified_blob(received[2].bytes, ContentDigest_try_new(ConfigDigest).v)

\* get_manifest has returned after a config blob response of a 2xx status
ConfigBlobRead ==
    /\ ReadDone("get_manifest_and_ref")
    /\ Len(received) = 2
    /\ received[2].io
    /\ is_success(received[2].status)

\* C34: the body of the config blob get_manifest fetches is checked against
\* the config.digest of the manifest: when it does not hash to it,
\* get_manifest fails with DigestMismatch and returns no Manifest
C34_ConfigBlobVerified ==
    (ConfigBlobRead /\ ~ConfigBlobVerdict.ok) =>
        /\ ~result.ret.ok
        /\ IsErrNamed(result.ret, "DigestMismatch")


\* Client.auth is Basic, or is Bearer
AuthIs(kind) == auth.some /\ auth.v.kind = kind

\* C35: whatever authenticate calls and read operations a Client has been
\* through, its auth is Basic only if the last authenticate call met a Basic
\* challenge, and is then made of the stored user and password; is Bearer only
\* if the last authenticate call met a Bearer challenge, with a token that is
\* neither empty nor "unauthenticated"; and is None when that call met no
\* challenge of the two schemes or did not return Ok
C35_AuthOfLastChallenge ==
    /\ AuthIs("Basic") =>
          /\ negotiation.scheme = W_basic
          /\ credentials.some
          /\ auth.v = BasicOf(credentials.v.user, Some(credentials.v.password))
    /\ AuthIs("Bearer") =>
          /\ negotiation.scheme = W_bearer
          /\ auth.v.token \notin { <<>>, W_unauthenticated }
    /\ negotiation.scheme \notin { W_basic, W_bearer } => auth = NoneV
    /\ negotiation.outcome # "ok" => auth = NoneV

\* a Client with credentials that took a token at an authenticate call still
\* holds it after a get_manifest call, whose request carried it
C35_Witness ==
    /\ ReadDone("get_manifest_and_ref")
    /\ AuthIs("Bearer")
    /\ auth.v.token = T_two
    /\ credentials.some
    /\ negotiation.scheme = W_bearer
    /\ negotiation.outcome = "ok"
    /\ sent[1].authorization = Some([scheme |-> "Bearer", token |-> T_two])

====
